---- MODULE Spec2Model ----
(***************************************************************************)
(* TabTreeTracker: the view mode controller (ViewModeController in         *)
(* viewer/components/cluster-visualizer.js, lines 697-1095) together with  *)
(* the parts of TreeVisualizer and ClusterVisualizer it drives.            *)
(*                                                                         *)
(* The controller is single-threaded JavaScript.  One action of the model  *)
(* is one run-to-completion block: a public call (switchMode, updateData,  *)
(* a zoom gesture) or one callback of the promise chain that               *)
(* animatedTransition builds (end of fade-out, end of the 50 ms delay, end *)
(* of fade-in) or the 100 ms timer that restoreState arms.                 *)
(***************************************************************************)
EXTENDS Integers, Sequences, FiniteSets, TLC

\* Bounds of the model.
MaxOps == 3        \* calls and gestures made after construction (a throwing destroy counts as one)
MaxPending == 2    \* animated transitions that may be pending at once

\* Values of the program.
Modes == {"tree", "cluster"}
Requests == Modes \cup {"bogus"}      \* "bogus": any unrecognised mode string
NoMode == "null"                      \* this.currentMode = null
NoVis == 0                            \* this.currentVisualizer = null
NoZoom == -1                          \* savedState.zoom = null / no currentZoom property
ZoomIdentity == 0                     \* d3.zoomIdentity
preserveZoom == TRUE                  \* options.preserveZoom (default)

VARIABLES
  currentMode,        \* ViewModeController.currentMode
  currentVisualizer,  \* ViewModeController.currentVisualizer (index into pres)
  treeVisualizer,     \* ViewModeController.treeVisualizer
  clusterVisualizer,  \* ViewModeController.clusterVisualizer
  data,               \* ViewModeController.data (version of the tree)
  savedState,         \* ViewModeController.savedState.zoom
  pres,               \* every presentation object constructed so far
  attached,           \* presentations whose DOM is inside the container
  chains,             \* the promise chains started by animatedTransition
  timers,             \* pending setTimeout(..., 100) callbacks of restoreState
  did,                \* steps performed by the last action, in program order
  lastOp,             \* the last action and the state it started from
  nOps,               \* public calls made so far
  irregular,          \* an unrecognised mode was requested or a destroy() threw
  destroyed,          \* ViewModeController.destroy() has returned
  onModeChange,       \* who installed ViewModeController.onModeChange last
  currentViewMode     \* TabTreeViewer.currentViewMode

\* The stateless library functions (domain-utils.js, the connection mapper,
\* cluster-boundaries.js) are exercised one call at a time: fn is the
\* function called, pc the position of the call, the other variables the
\* arguments and the result.
VARIABLES
  fn,                 \* the function called ("none": no call)
  pc,                 \* "idle" | "called" | "returned" | "threw"
  url,                \* extractDomain: the url argument
  options,            \* extractDomain: the options argument
  extracted,          \* extractDomain: the value returned
  domain,             \* generateDomainColor: the domain argument
  color,              \* generateDomainColor: the hash, the HSL triple, the value returned
  points,             \* calculateConvexHull / createPaddedBoundary: the points argument
  hull,               \* calculateConvexHull: the array returned
  padded,             \* createPaddedBoundary: the array returned
  tabTree,            \* groupNodesByDomain: the tabTree argument
  groupOptions,       \* groupNodesByDomain: the options argument
  domainGroups,       \* groupNodesByDomain: the Map returned (in insertion order)
  connOptions,        \* buildDomainConnections: the options argument
  connectionMap,      \* buildDomainConnections: the edges accumulated
  connections,        \* buildDomainConnections: the array returned
  enhancedNodes,      \* ClusterVisualizer.enhancedNodes (in insertion order)
  simulationNodes,    \* ClusterVisualizer.nodes
  simulationLinks,    \* ClusterVisualizer.links
  clusterStrength,    \* ClusterVisualizer.options.clusterStrength, in tenths
  alpha               \* the cooling factor of the last tick, in tenths

ctlvars == <<currentMode, currentVisualizer, treeVisualizer, clusterVisualizer,
             data, savedState, pres, attached, chains, timers,
             did, lastOp, nOps, irregular, destroyed, onModeChange, currentViewMode>>

domvars == <<url, options, extracted>>

colvars == <<domain, color>>

hullvars == <<points, hull, padded>>

graphvars == <<tabTree, groupOptions, domainGroups, connOptions, connectionMap, connections>>

simvars == <<enhancedNodes, simulationNodes, simulationLinks, clusterStrength, alpha>>

libvars == <<fn, pc, domvars, colvars, hullvars, graphvars, simvars>>

vars == <<ctlvars, libvars>>

\* The variables of a function that is not being called.
DomIdle == url = <<>> /\ options = <<>> /\ extracted = <<>>
ColIdle == domain = <<>> /\ color = <<>>
HullIdle == points = <<>> /\ hull = <<>> /\ padded = <<>>
GraphIdle ==
  /\ tabTree = <<>> /\ groupOptions = <<>> /\ domainGroups = <<>>
  /\ connOptions = <<>> /\ connectionMap = <<>> /\ connections = <<>>

SimIdle ==
  /\ enhancedNodes = <<>> /\ simulationNodes = <<>> /\ simulationLinks = <<>>
  /\ clusterStrength = <<>> /\ alpha = <<>>

\* No library call is being followed.
LibIdle ==
  /\ fn = "none" /\ pc = "idle"
  /\ DomIdle /\ ColIdle /\ HullIdle /\ GraphIdle /\ SimIdle

Step(op, a, b) == [op |-> op, a |-> a, b |-> b]

\* The controller and everything it reaches, as one value the operations
\* below transform in the order the code runs them.  sw is the promise chain
\* the running callback belongs to (0: a public call), threw is set when an
\* exception leaves the operation, faulted when a destroy() of this switch
\* threw.
St ==
  [currentMode |-> currentMode, currentVisualizer |-> currentVisualizer,
   treeVisualizer |-> treeVisualizer, clusterVisualizer |-> clusterVisualizer,
   data |-> data, savedState |-> savedState, pres |-> pres,
   attached |-> attached, chains |-> chains, timers |-> timers,
   did |-> <<>>, threw |-> FALSE, faulted |-> FALSE, sw |-> 0]

Do(s, step) ==
  [s EXCEPT !.did = Append(@, step),
            !.chains = IF s.sw = 0 THEN @
                       ELSE [@ EXCEPT ![s.sw].steps = Append(@, step)]]

\* container.innerHTML = '': every presentation's DOM and every transition
\* overlay (a child of the same container) leaves the document.
ClearContainer(s) ==
  [s EXCEPT !.attached = {},
            !.chains = [c \in DOMAIN s.chains |->
                          IF s.chains[c].overlay
                          THEN [s.chains[c] EXCEPT
                                  !.overlay = FALSE,
                                  !.steps = Append(@, Step("overlayRemoved", "", ""))]
                          ELSE s.chains[c]]]

\* new TreeVisualizer(container, treeData, options): no currentZoom property,
\* no destroy method, no simulation.
NewTree(ver) ==
  [kind |-> "tree", svg |-> TRUE, sim |-> "none", torn |-> FALSE,
   currentZoom |-> NoZoom, cam |-> ZoomIdentity,
   form |-> "processed", ver |-> ver, built |-> ver,
   expect |-> NoZoom, restored |-> NoZoom]

\* new ClusterVisualizer(container, clusterData, options).
NewCluster(ver) ==
  [kind |-> "cluster", svg |-> TRUE, sim |-> "running", torn |-> FALSE,
   currentZoom |-> ZoomIdentity, cam |-> ZoomIdentity,
   form |-> "raw", ver |-> ver, built |-> ver,
   expect |-> NoZoom, restored |-> NoZoom]

\* ClusterVisualizer.destroy(); fault names the statement that throws.
ClusterDestroy(s, v, fault) ==
  LET p == s.pres[v] IN
  IF fault = "interrupt" /\ p.svg
  THEN [s EXCEPT !.threw = TRUE, !.faulted = TRUE,
                 !.pres[v].sim = IF p.sim = "null" THEN "null" ELSE "stopped"]
  ELSE [ClearContainer(s) EXCEPT !.pres[v].sim = "null", !.pres[v].svg = FALSE]

\* A version of destroyVisualizer without the typeof check and the try/catch.
destroyVisualizerUnguarded(s, v, fault) ==
  IF v = NoVis THEN s
  ELSE LET s0 == Do(s, Step("teardown", s.pres[v].kind, "")) IN
       IF s.pres[v].kind = "tree"
       THEN [s0 EXCEPT !.threw = TRUE]
       ELSE LET s1 == ClusterDestroy(s0, v, fault) IN
            IF s1.threw THEN s1 ELSE [s1 EXCEPT !.pres[v].torn = TRUE]

\* ViewModeController.destroyVisualizer(visualizer)
destroyVisualizer(s, v, fault) ==
  IF v = NoVis THEN s
  ELSE LET s0 == Do(s, Step("teardown", s.pres[v].kind, "")) IN
       IF s.pres[v].kind = "cluster"
       THEN LET s1 == ClusterDestroy(s0, v, fault) IN
            IF s1.threw
            THEN [ClearContainer([s1 EXCEPT !.threw = FALSE]) EXCEPT !.pres[v].torn = TRUE]
            ELSE [s1 EXCEPT !.pres[v].torn = TRUE]
       ELSE [ClearContainer(s0) EXCEPT !.pres[v].torn = TRUE]

\* ViewModeController.createVisualizer(mode).  Both constructors empty the
\* container before they append their own elements.
createVisualizer(s, mode) ==
  LET id == Len(s.pres) + 1 IN
  IF mode = "tree"
  THEN [ClearContainer(Do(s, Step("create", mode, ""))) EXCEPT
          !.pres = Append(@, NewTree(s.data)),
          !.treeVisualizer = id, !.currentVisualizer = id, !.attached = {id}]
  ELSE IF mode = "cluster"
  THEN [ClearContainer(Do(s, Step("create", mode, ""))) EXCEPT
          !.pres = Append(@, NewCluster(s.data)),
          !.clusterVisualizer = id, !.currentVisualizer = id, !.attached = {id}]
  ELSE [s EXCEPT !.threw = TRUE]

\* ViewModeController.saveCurrentState()
saveCurrentState(s) ==
  IF s.currentVisualizer = NoVis THEN s
  ELSE LET z == s.pres[s.currentVisualizer].currentZoom IN
       Do(IF preserveZoom /\ z # NoZoom THEN [s EXCEPT !.savedState = z] ELSE s,
          Step("saveState", "", ""))

\* ViewModeController.restoreState(): the transform is applied by a timer.
restoreState(s) ==
  IF s.currentVisualizer = NoVis THEN s
  ELSE Do(IF preserveZoom /\ s.savedState # NoZoom /\ s.pres[s.currentVisualizer].svg
          THEN [s EXCEPT !.timers = @ + 1] ELSE s,
          Step("restoreState", "", ""))

\* The camera of the presentation that is current in s (its svg's transform).
CameraOf(s) ==
  IF s.currentVisualizer = NoVis THEN NoZoom ELSE s.pres[s.currentVisualizer].cam

\* Records, on the presentation just created, the camera the presentation
\* it replaces had when the switch began.
NoteLeft(s, cam) == [s EXCEPT !.pres[s.currentVisualizer].expect = cam]

\* A version of immediateTransition that constructs before it tears down.
immediateTransitionCreateFirst(s, mode, fault) ==
  LET old == s.currentVisualizer
      s1 == createVisualizer(s, mode)
      s2 == IF old # NoVis THEN destroyVisualizer(saveCurrentState(s1), old, fault) ELSE s1
  IN IF s2.threw THEN s2
     ELSE Do(restoreState(NoteLeft([s2 EXCEPT !.currentMode = mode], CameraOf(s))),
             Step("onModeChange", mode, ""))

\* ViewModeController.immediateTransition(mode)
immediateTransition(s, mode, fault) ==
  LET s1 == IF s.currentVisualizer # NoVis
            THEN destroyVisualizer(saveCurrentState(s), s.currentVisualizer, fault)
            ELSE s
      s2 == IF s1.threw THEN s1 ELSE createVisualizer(s1, mode)
  IN IF s2.threw THEN s2
     ELSE Do(restoreState(NoteLeft([s2 EXCEPT !.currentMode = mode], CameraOf(s))),
             Step("onModeChange", mode, ""))

\* ViewModeController.animatedTransition(fromMode, toMode), up to the point
\* where it returns: state saved, overlay appended, fade-out started.
\* fadeOut resolves at once when the visualizer has no svg.
animatedTransition(s, fromMode, toMode) ==
  LET c == Len(s.chains) + 1
      v == s.currentVisualizer
      s0 == [s EXCEPT !.chains = Append(@,
                [from |-> fromMode, to |-> toMode, pc |-> "new", overlay |-> FALSE,
                 steps |-> s.did, leftCam |-> CameraOf(s), faulted |-> FALSE,
                 startData |-> s.data]),
              !.sw = c]
      s1 == Do(saveCurrentState(s0), Step("overlayShown", "", ""))
      s2 == Do([s1 EXCEPT !.chains[c].overlay = TRUE], Step("fadeOutStart", fromMode, ""))
  IN [s2 EXCEPT !.chains[c].pc =
        IF v # NoVis /\ s.pres[v].svg THEN "fadeOut" ELSE "fadeOutNow"]

\* A version of switchMode without the early return on mode === currentMode.
switchModeNoEarlyReturn(s, mode, animate, fault) ==
  IF animate /\ s.currentMode # NoMode
  THEN animatedTransition(Do(s, Step("onTransitionStart", s.currentMode, mode)),
                          s.currentMode, mode)
  ELSE immediateTransition(s, mode, fault)

\* A version of switchMode that ignores its animate argument.
switchModeIgnoresAnimate(s, mode, animate, fault) ==
  IF mode = s.currentMode THEN s
  ELSE IF s.currentMode # NoMode
  THEN animatedTransition(Do(s, Step("onTransitionStart", s.currentMode, mode)),
                          s.currentMode, mode)
  ELSE immediateTransition(s, mode, fault)

\* ViewModeController.switchMode(mode, animate)
switchMode(s, mode, animate, fault) ==
  IF mode = s.currentMode THEN s
  ELSE IF animate /\ s.currentMode # NoMode
  THEN animatedTransition(Do(s, Step("onTransitionStart", s.currentMode, mode)),
                          s.currentMode, mode)
  ELSE immediateTransition(s, mode, fault)

\* A version of updateData that rebuilds the presentation of the current mode.
updateDataRebuild(s, ver) ==
  LET s0 == [s EXCEPT !.data = ver] IN
  IF s.currentMode \in Modes
  THEN createVisualizer(destroyVisualizer(s0, s0.currentVisualizer, "none"), s.currentMode)
  ELSE s0

\* A version of updateData that records the new data after it has pushed it
\* into the current presentation.
updateDataPushFirst(s, ver) ==
  LET v == s.currentVisualizer
      s0 == IF v = NoVis THEN s
            ELSE IF s.currentMode = "tree"
            THEN Do([s EXCEPT !.pres[v].form = "processed", !.pres[v].ver = ver],
                    Step("push", "processed", ""))
            ELSE IF s.currentMode = "cluster"
            THEN LET s1 == Do([s EXCEPT !.pres[v].form = "raw", !.pres[v].ver = ver],
                              Step("push", "raw", ""))
                 IN IF s.pres[v].sim = "null" THEN [s1 EXCEPT !.threw = TRUE] ELSE s1
            ELSE s
  IN IF s0.threw THEN s0 ELSE [s0 EXCEPT !.data = ver]

\* ViewModeController.updateData(newData)
updateData(s, ver) ==
  LET s0 == [s EXCEPT !.data = ver]
      v == s.currentVisualizer
  IN IF v = NoVis THEN s0
     ELSE IF s.currentMode = "tree"
     THEN Do([s0 EXCEPT !.pres[v].form = "processed", !.pres[v].ver = ver],
             Step("push", "processed", ""))
     ELSE IF s.currentMode = "cluster"
     THEN LET s1 == Do([s0 EXCEPT !.pres[v].form = "raw", !.pres[v].ver = ver],
                       Step("push", "raw", ""))
          IN IF s.pres[v].sim = "null" THEN [s1 EXCEPT !.threw = TRUE] ELSE s1
     ELSE s0

\* A presentation that was torn down and is no longer the current one can
\* no longer be read by saveCurrentState, updateData or the restore timer:
\* its data and camera are dropped from the state.
Forget(p) ==
  [p EXCEPT !.currentZoom = NoZoom, !.cam = ZoomIdentity, !.form = "", !.ver = 0,
            !.built = 0, !.expect = NoZoom, !.restored = NoZoom]

Collect(s) ==
  [i \in DOMAIN s.pres |->
     IF s.pres[i].torn /\ i # s.currentVisualizer THEN Forget(s.pres[i]) ELSE s.pres[i]]

\* The chains without chain c (a settled promise chain is garbage).
Settle(cs, c) == SubSeq(cs, 1, c - 1) \o SubSeq(cs, c + 1, Len(cs))

Commit(s) ==
  /\ currentMode' = s.currentMode
  /\ currentVisualizer' = s.currentVisualizer
  /\ treeVisualizer' = s.treeVisualizer
  /\ clusterVisualizer' = s.clusterVisualizer
  /\ data' = s.data
  /\ savedState' = s.savedState
  /\ pres' = Collect(s)
  /\ attached' = s.attached
  /\ chains' = s.chains
  /\ timers' = s.timers
  /\ did' = s.did

\* The last action: its name, its arguments (for a callback of a chain, the
\* chain's fromMode and toMode), whether an exception left it, and the mode
\* and visualizer that were current when it began.
Op(name, from, mode, animate, s) ==
  [op |-> name, from |-> from, mode |-> mode, animate |-> animate, threw |-> s.threw,
   faulted |-> s.faulted, prevMode |-> currentMode, prevVis |-> currentVisualizer,
   prevLive |-> (currentVisualizer # NoVis /\ ~pres[currentVisualizer].torn)]

\* The promise chains that have not settled.
Pending == DOMAIN chains

\* this.onModeChange(mode) in the steps of an action: the mode of the last
\* call, "" if there is none.
RECURSIVE LastModeChange(_)
LastModeChange(seq) ==
  IF seq = <<>> THEN ""
  ELSE IF seq[Len(seq)].op = "onModeChange" THEN seq[Len(seq)].a
  ELSE LastModeChange(SubSeq(seq, 1, Len(seq) - 1))

\* The listener called as this.onModeChange.  The one TabTreeViewer passes in
\* the options stores the mode in currentViewMode; the one ClusterControls
\* assigns to viewModeController.onModeChange updates its own buttons.
Notify(steps, mirror) ==
  IF onModeChange = "viewer" /\ LastModeChange(steps) # ""
  THEN LastModeChange(steps) ELSE mirror

\* What an action of the controller leaves alone outside the controller.
Notified(steps) ==
  /\ currentViewMode' = Notify(steps, currentViewMode)
  /\ UNCHANGED <<destroyed, onModeChange>>

\* A resolved promise's reaction is a microtask: it runs before any timer or
\* transition-end callback.
MicrotaskReady == \E c \in DOMAIN chains : chains[c].pc = "fadeOutNow"

\* "interrupt": destroy() throws at this.svg.selectAll('*').interrupt(),
\* after the simulation was stopped and before the container is emptied.
Faults == {"none", "interrupt"}

FaultCost(fault) == IF fault = "none" THEN 0 ELSE 1

FaultAllowed(fault) ==
  fault # "none" =>
    /\ currentVisualizer # NoVis
    /\ pres[currentVisualizer].kind = "cluster"
    /\ pres[currentVisualizer].svg

Blank ==
  [currentMode |-> NoMode, currentVisualizer |-> NoVis, treeVisualizer |-> NoVis,
   clusterVisualizer |-> NoVis, data |-> 1, savedState |-> NoZoom, pres |-> <<>>,
   attached |-> {}, chains |-> <<>>, timers |-> 0, did |-> <<>>, threw |-> FALSE,
   faulted |-> FALSE, sw |-> 0]

\* new ViewModeController(container, data, options): init() activates
\* options.defaultMode without animation.
Init ==
  /\ \E defaultMode \in Modes :
       LET s == switchMode(Blank, defaultMode, FALSE, "none") IN
       /\ currentMode = s.currentMode
       /\ currentVisualizer = s.currentVisualizer
       /\ treeVisualizer = s.treeVisualizer
       /\ clusterVisualizer = s.clusterVisualizer
       /\ data = s.data
       /\ savedState = s.savedState
       /\ pres = s.pres
       /\ attached = s.attached
       /\ chains = s.chains
       /\ timers = s.timers
       /\ did = s.did
       /\ lastOp = [op |-> "constructor", from |-> NoMode, mode |-> defaultMode,
                    animate |-> FALSE, threw |-> FALSE, faulted |-> FALSE,
                    prevMode |-> NoMode, prevVis |-> NoVis, prevLive |-> FALSE]
  /\ nOps = 0
  /\ irregular = FALSE
  /\ destroyed = FALSE
  /\ onModeChange = "none"
  /\ currentViewMode = NoMode
  /\ LibIdle

\* A caller invokes switchMode(mode, animate).
SwitchMode ==
  \E mode \in Requests, animate \in BOOLEAN, fault \in Faults :
    /\ ~destroyed
    /\ nOps + FaultCost(fault) < MaxOps
    /\ FaultAllowed(fault)
    /\ fault # "none" => (mode # currentMode /\ ~animate)
    /\ (animate /\ mode # currentMode) => Cardinality(Pending) < MaxPending
    /\ LET s == switchMode(St, mode, animate, fault) IN
       /\ Commit(s)
       /\ lastOp' = Op("switchMode", currentMode, mode, animate, s)
    /\ nOps' = nOps + 1 + FaultCost(fault)
    /\ irregular' = (irregular \/ mode \notin Modes \/ fault # "none")
    /\ Notified(did')
    /\ UNCHANGED libvars

\* First reaction of the chain: the fade-out has ended (or was skipped);
\* the current visualizer is destroyed and the 50 ms delay starts.
FadeOutEnd(c) ==
  /\ c \in DOMAIN chains
  /\ chains[c].pc \in {"fadeOut", "fadeOutNow"}
  /\ chains[c].pc = "fadeOut" => ~MicrotaskReady
  /\ \E fault \in Faults :
       /\ nOps + FaultCost(fault) <= MaxOps
       /\ FaultAllowed(fault)
       /\ LET s0 == Do([St EXCEPT !.sw = c], Step("fadeOutEnd", chains[c].from, ""))
              s1 == destroyVisualizer(s0, s0.currentVisualizer, fault)
              s2 == IF s1.threw
                    THEN [s1 EXCEPT !.did = s1.chains[c].steps,
                                    !.chains = Settle(@, c)]
                    ELSE [s1 EXCEPT !.chains[c].pc = "delay",
                                    !.chains[c].faulted = s1.faulted]
          IN \E s \in {s2} :
               /\ Commit(s)
               /\ lastOp' = Op("fadeOutEnd", chains[c].from, chains[c].to, TRUE, s)
       /\ nOps' = nOps + FaultCost(fault)
       /\ irregular' = (irregular \/ fault # "none")
  /\ Notified(<<>>)
  /\ UNCHANGED libvars

\* Second reaction: the delay has elapsed; the target visualizer is created,
\* currentMode is set and the fade-in starts.  An exception rejects the chain.
DelayEnd(c) ==
  /\ c \in DOMAIN chains
  /\ chains[c].pc = "delay"
  /\ ~MicrotaskReady
  /\ LET s0 == [St EXCEPT !.sw = c, !.faulted = chains[c].faulted]
         s1 == createVisualizer(s0, chains[c].to)
         s2 == IF s1.threw
               THEN [s1 EXCEPT !.did = s1.chains[c].steps, !.chains = Settle(@, c)]
               ELSE Do([NoteLeft([s1 EXCEPT !.currentMode = chains[c].to],
                                 chains[c].leftCam)
                          EXCEPT !.chains[c].pc = "fadeIn"],
                       Step("fadeInStart", chains[c].to, ""))
     IN \E s \in {s2} :
          /\ Commit(s)
          /\ lastOp' = Op("delayEnd", chains[c].from, chains[c].to, TRUE, s)
  /\ Notified(<<>>)
  /\ UNCHANGED <<nOps, irregular, libvars>>

\* Third reaction: the fade-in has ended; overlay.remove(), restoreState(),
\* onTransitionEnd, onModeChange.  The chain is settled: did holds every
\* step the switch performed, from switchMode on.
FadeInEnd(c) ==
  /\ c \in DOMAIN chains
  /\ chains[c].pc = "fadeIn"
  /\ ~MicrotaskReady
  /\ LET s0 == Do([St EXCEPT !.sw = c, !.faulted = chains[c].faulted],
                   Step("fadeInEnd", chains[c].to, ""))
         s1 == IF s0.chains[c].overlay
               THEN Do([s0 EXCEPT !.chains[c].overlay = FALSE],
                       Step("overlayRemoved", "", ""))
               ELSE s0
         s2 == Do(restoreState(s1), Step("onTransitionEnd", chains[c].from, chains[c].to))
         s3 == Do(s2, Step("onModeChange", chains[c].to, ""))
         s4 == [s3 EXCEPT !.did = s3.chains[c].steps, !.chains = Settle(@, c)]
     IN \E s \in {s4} :
          /\ Commit(s)
          /\ lastOp' = Op("fadeInEnd", chains[c].from, chains[c].to, TRUE, s)
  /\ Notified(did')
  /\ UNCHANGED <<nOps, irregular, libvars>>

\* The timer armed by restoreState fires: the saved transform is applied to
\* the svg of whatever visualizer is current now.
RestoreTimer ==
  /\ timers > 0
  /\ ~MicrotaskReady
  /\ timers' = timers - 1
  /\ LET v == currentVisualizer IN
       IF v # NoVis /\ pres[v].svg
       THEN /\ pres' = [pres EXCEPT ![v].cam = savedState, ![v].restored = savedState]
            /\ did' = <<Step("zoomApplied", pres[v].kind, "")>>
            /\ lastOp' = Op("restoreTimer", currentMode, currentMode, FALSE, [threw |-> FALSE, faulted |-> FALSE])
       ELSE /\ pres' = pres
            /\ did' = <<>>
            /\ lastOp' = Op("restoreTimer", currentMode, currentMode, FALSE, [threw |-> TRUE, faulted |-> FALSE])
  /\ Notified(<<>>)
  /\ UNCHANGED <<currentMode, currentVisualizer, treeVisualizer, clusterVisualizer,
                 data, savedState, attached, chains, nOps, irregular, libvars>>

\* A caller invokes updateData(newData) with a new version of the tree.
UpdateData ==
  /\ ~destroyed
  /\ nOps < MaxOps
  /\ LET s == updateData(St, data + 1) IN
       /\ Commit(s)
       /\ lastOp' = Op("updateData", currentMode, currentMode, FALSE, s)
  /\ nOps' = nOps + 1
  /\ Notified(<<>>)
  /\ UNCHANGED <<irregular, libvars>>

\* The user zooms or pans a presentation that is in the document: the zoom
\* listener of ClusterVisualizer stores the transform in currentZoom,
\* TreeVisualizer.handleZoom does not.
UserZoom(v) ==
  /\ ~destroyed
  /\ nOps < MaxOps
  /\ v \in attached
  /\ pres[v].svg
  /\ ~MicrotaskReady
  /\ LET z == nOps + 1 IN
       pres' = [pres EXCEPT ![v].cam = z,
                            ![v].currentZoom = IF pres[v].kind = "cluster" THEN z ELSE @]
  /\ did' = <<>>
  /\ lastOp' = Op("zoom", currentMode, currentMode, FALSE, [threw |-> FALSE, faulted |-> FALSE])
  /\ nOps' = nOps + 1
  /\ Notified(<<>>)
  /\ UNCHANGED <<currentMode, currentVisualizer, treeVisualizer, clusterVisualizer,
                 data, savedState, attached, chains, timers, irregular, libvars>>

\* ViewModeController.destroy()
destroy(s) ==
  LET s1 == destroyVisualizer(s, s.currentVisualizer, "none")
      s2 == destroyVisualizer(s1, s.treeVisualizer, "none")
      s3 == destroyVisualizer(s2, s.clusterVisualizer, "none")
  IN ClearContainer(s3)

\* The owner of the controller calls destroy() and drops its reference.
Destroy ==
  /\ ~destroyed
  /\ nOps < MaxOps
  /\ LET s == destroy(St) IN
       /\ Commit(s)
       /\ lastOp' = Op("destroy", currentMode, currentMode, FALSE, s)
  /\ nOps' = nOps + 1
  /\ destroyed' = TRUE
  /\ UNCHANGED <<irregular, onModeChange, currentViewMode, libvars>>

Next ==
  \/ SwitchMode
  \/ \E c \in 1..MaxOps : FadeOutEnd(c)
  \/ \E c \in 1..MaxOps : DelayEnd(c)
  \/ \E c \in 1..MaxOps : FadeInEnd(c)
  \/ RestoreTimer
  \/ UpdateData
  \/ \E v \in 1..(MaxOps + 1) : UserZoom(v)
  \/ Destroy

Spec == Init /\ [][Next]_vars

\* Every completion signal eventually fires: the 'end' event of a fade, the
\* 50 ms and 100 ms timers, the reaction of a resolved promise.
Fairness ==
  /\ WF_vars(\E c \in 1..MaxOps : FadeOutEnd(c))
  /\ WF_vars(\E c \in 1..MaxOps : DelayEnd(c))
  /\ WF_vars(\E c \in 1..MaxOps : FadeInEnd(c))
  /\ WF_vars(RestoreTimer)

FairSpec == Spec /\ Fairness

----------------------------------------------------------------------------
\* Vocabulary of the properties.

IsEvent(st) == st.op \in {"onModeChange", "onTransitionStart", "onTransitionEnd"}
Events(seq) == SelectSeq(seq, IsEvent)
Has(seq, op) == \E i \in DOMAIN seq : seq[i].op = op
Count(seq, op) == Cardinality({i \in DOMAIN seq : seq[i].op = op})

\* Presentations that were constructed and never handed to destroyVisualizer.
Active == {i \in DOMAIN pres : ~pres[i].torn}

\* The last action was a switchMode call (or the constructor's first
\* activation) that took the non-animated path to a recognised other mode.
ImmediateSwitchDone ==
  /\ lastOp.op \in {"switchMode", "constructor"}
  /\ lastOp.mode \in Modes
  /\ lastOp.mode # lastOp.prevMode
  /\ (~lastOp.animate \/ lastOp.prevMode = NoMode)

\* In the steps of one switch: at most one teardown and one construction,
\* and the construction comes after the teardown.
TeardownThenCreate(seq) ==
  /\ Count(seq, "teardown") <= 1
  /\ Count(seq, "create") <= 1
  /\ \A i \in DOMAIN seq :
       seq[i].op = "create" => \E j \in 1..(i - 1) : seq[j].op = "teardown"

----------------------------------------------------------------------------
\* C1: within one mode switch the teardown step of the presentation being
\* left comes before the createVisualizer step of that switch, each happens
\* once, and this holds for the immediate path (steps of the call) and for
\* the animated path (steps of the promise chain, pending or settled).
C1_TeardownBeforeCreate ==
  /\ \A c \in DOMAIN chains : TeardownThenCreate(chains[c].steps)
  /\ lastOp.op \in {"fadeInEnd", "switchMode"} => TeardownThenCreate(did)

\* C1 witness: an animated switch has run to its end with a teardown and a
\* construction among its steps.
C1_Witness ==
  /\ lastOp.op = "fadeInEnd"
  /\ Has(did, "teardown")
  /\ Has(did, "create")

\* C2: (on runs in which every requested mode is recognised and no destroy()
\* throws, so that the statement is tested on its own) at most one presentation
\* that was created and not torn down exists at any time, and exactly one
\* whenever no animated transition is pending.
C2_OneActivePresentation ==
  ~irregular =>
    /\ Cardinality(Active) <= 1
    /\ Pending = {} => Cardinality(Active) = 1

\* C3: (on runs in which every requested mode is recognised and no destroy()
\* throws) no two switches are in flight at once: a switchMode call made while an animated transition is
\* pending never starts a second fade-out/teardown/create chain.
C3_NoOverlappingSwitches ==
  ~irregular => Cardinality(Pending) <= 1

\* C4: switchMode(target, animate) with target equal to the current mode
\* changes nothing for either value of animate: mode, presentations,
\* container, saved state, chains and timers are unchanged, no step is
\* performed and no callback is emitted.
C4_SameModeIsNoop ==
  [][(lastOp'.op = "switchMode" /\ lastOp'.mode = currentMode) =>
       /\ UNCHANGED <<currentMode, currentVisualizer, treeVisualizer,
                      clusterVisualizer, data, savedState, pres, attached,
                      chains, timers>>
       /\ did' = <<>>
       /\ ~lastOp'.threw]_vars

\* C4 witness: an animated switchMode to the current mode has returned.
C4_Witness ==
  /\ lastOp.op = "switchMode"
  /\ lastOp.animate
  /\ lastOp.mode = lastOp.prevMode
  /\ did = <<>>

\* C5: a non-animated switch to another recognised mode, and the first
\* activation by the constructor, return with currentMode equal to the
\* target, the target presentation active and in the container, exactly one
\* onModeChange(target) emitted and no onTransitionStart/onTransitionEnd.
C5_ImmediateSwitchIsSynchronous ==
  ImmediateSwitchDone =>
    /\ ~lastOp.threw
    /\ currentMode = lastOp.mode
    /\ currentVisualizer # NoVis
    /\ currentVisualizer # lastOp.prevVis
    /\ pres[currentVisualizer].kind = lastOp.mode
    /\ ~pres[currentVisualizer].torn
    /\ attached = {currentVisualizer}
    /\ Events(did) = <<Step("onModeChange", lastOp.mode, "")>>

\* C5 witness: a non-animated switchMode from one mode to the other returned.
C5_Witness ==
  /\ lastOp.op = "switchMode"
  /\ ~lastOp.animate
  /\ lastOp.prevMode \in Modes
  /\ lastOp.mode \in Modes \ {lastOp.prevMode}
  /\ currentMode = lastOp.mode

\* The steps the claim lists, in the order it lists them.
IsListedStep(st) ==
  st.op \in {"onTransitionStart", "overlayShown", "fadeOutEnd", "teardown", "create",
             "fadeInEnd", "overlayRemoved", "restoreState", "onTransitionEnd",
             "onModeChange"}

ListedOrder(a, b) ==
  <<Step("onTransitionStart", a, b), Step("overlayShown", "", ""),
    Step("fadeOutEnd", a, ""), Step("teardown", a, ""), Step("create", b, ""),
    Step("fadeInEnd", b, ""), Step("overlayRemoved", "", ""),
    Step("restoreState", "", ""), Step("onTransitionEnd", a, b),
    Step("onModeChange", b, "")>>

\* C6: an animated switch from a to b performs, each once and in this order:
\* onTransitionStart(a,b) and overlay shown, fade-out of a, teardown of a,
\* creation of b, fade-in of b, overlay removed, restoreState,
\* onTransitionEnd(a,b), onModeChange(b).
C6_AnimatedStepOrder ==
  lastOp.op = "fadeInEnd" =>
    SelectSeq(did, IsListedStep) = ListedOrder(lastOp.from, lastOp.mode)

\* C7: switchMode with an unrecognised mode fails the call and leaves the
\* view state as it was: a non-animated call throws with the mode and the
\* active presentation unchanged, and no callback of an animated call tears
\* down the presentation that was active.
C7_InvalidModeLeavesStateIntact ==
  /\ (lastOp.op = "switchMode" /\ lastOp.mode \notin Modes /\ ~lastOp.animate
        /\ lastOp.prevLive) =>
       /\ lastOp.threw
       /\ currentMode = lastOp.prevMode
       /\ currentVisualizer = lastOp.prevVis
       /\ ~pres[lastOp.prevVis].torn
  /\ (lastOp.op = "fadeOutEnd" /\ lastOp.mode \notin Modes /\ lastOp.prevLive) =>
       ~pres[lastOp.prevVis].torn

\* C8: teardown never fails a switch.  When the presentation being removed
\* has no destroy method or its destroy throws, the container is emptied
\* instead, no exception reaches the caller of switchMode or rejects the
\* chain, and the switch goes on to create the target and make it current.
C8_TeardownIsDefensive ==
  /\ (ImmediateSwitchDone /\ lastOp.prevVis # NoVis) =>
       /\ ~lastOp.threw
       /\ pres[lastOp.prevVis].torn
       /\ lastOp.prevVis \notin attached
       /\ currentMode = lastOp.mode
       /\ ~pres[currentVisualizer].torn
  /\ lastOp.op = "fadeOutEnd" =>
       /\ ~lastOp.threw
       /\ pres[lastOp.prevVis].torn
       /\ attached = {}
       /\ \E c \in DOMAIN chains :
            chains[c].pc = "delay" /\ chains[c].to = lastOp.mode
  /\ (lastOp.op = "delayEnd" /\ lastOp.mode \in Modes) =>
       /\ ~lastOp.threw
       /\ currentMode = lastOp.mode
  /\ lastOp.op = "fadeInEnd" => ~lastOp.threw

\* C8 witness: an animated switch whose teardown met a throwing destroy()
\* has run to its end and its target mode is current.
C8_Witness ==
  /\ lastOp.op = "fadeInEnd"
  /\ lastOp.faulted
  /\ currentMode = lastOp.mode
  /\ Pending = {}

\* C9: updateData changes neither the current mode nor which presentation
\* is current, creates and tears down nothing, emits no callback, and
\* pushes the new data into the current presentation: the processed form in
\* tree mode, the raw form in cluster mode.
C9_UpdateDataKeepsMode ==
  [][lastOp'.op = "updateData" =>
       /\ UNCHANGED <<currentMode, currentVisualizer, treeVisualizer,
                      clusterVisualizer, attached, chains, timers, savedState>>
       /\ Len(pres') = Len(pres)
       /\ \A i \in DOMAIN pres :
            /\ pres'[i].torn = pres[i].torn
            /\ pres'[i].sim = pres[i].sim
            /\ pres'[i].kind = pres[i].kind
       /\ Events(did') = <<>>
       /\ data' # data
       /\ (currentVisualizer # NoVis /\ ~pres[currentVisualizer].torn) =>
            /\ pres'[currentVisualizer].ver = data'
            /\ pres'[currentVisualizer].form =
                 (IF currentMode = "tree" THEN "processed" ELSE "raw")
            /\ ~lastOp'.threw]_vars

\* C9 witness: updateData has pushed a newer tree, in raw form, into the
\* cluster presentation that was already active.
C9_Witness ==
  /\ lastOp.op = "updateData"
  /\ currentMode = "cluster"
  /\ ~pres[currentVisualizer].torn
  /\ pres[currentVisualizer].form = "raw"
  /\ pres[currentVisualizer].ver = data
  /\ pres[currentVisualizer].built < data

\* C10: with preserveZoom enabled, the camera restored into a presentation
\* after a switch is the camera the presentation just left had when that
\* switch began.
C10_CameraSurvivesSwitch ==
  preserveZoom =>
    \A i \in DOMAIN pres :
      pres[i].restored # NoZoom => pres[i].restored = pres[i].expect

----------------------------------------------------------------------------
\* The library functions.  While one of them is followed the controller
\* does not exist.
CtlIdle ==
  /\ currentMode = NoMode /\ currentVisualizer = NoVis
  /\ treeVisualizer = NoVis /\ clusterVisualizer = NoVis
  /\ data = 0 /\ savedState = NoZoom /\ pres = <<>> /\ attached = {}
  /\ chains = <<>> /\ timers = 0 /\ did = <<>>
  /\ lastOp = [op |-> "none"] /\ nOps = 0 /\ irregular = FALSE
  /\ destroyed = FALSE /\ onModeChange = "none" /\ currentViewMode = NoMode

----------------------------------------------------------------------------
\* domain-utils.js: extractDomain.
\*
\* A string is a sequence of tokens: an optional scheme ("http:" stands for
\* "http://") followed by the labels of the host, which a "." separates.
\* A hostname and a domain are the sequence of their labels.

MaxLabels == 3     \* labels in a url's host

Schemes == {"http:", "chrome:", "chrome-extension:"}
Labels == {"www", "WWW", "a", "com", "uk"}
commonTLDs == {"com", "org", "net", "edu", "gov", "io", "co"}

LabelSeqs == UNION {[1..n -> Labels] : n \in 0..MaxLabels}

\* The values passed as url: null, undefined, a number, or a string.
Urls ==
  {[type |-> t, tokens |-> <<>>] : t \in {"null", "undefined", "number"}}
    \cup {[type |-> "string", tokens |-> h] : h \in LabelSeqs}
    \cup {[type |-> "string", tokens |-> <<sc>> \o h] : sc \in Schemes, h \in LabelSeqs}

\* The options of extractDomain (each has a default).
DomainOptions ==
  [removeWww : BOOLEAN, groupSubdomains : BOOLEAN, fallback : {"unknown", "other"}]

toLowerCase(l) == IF l = "WWW" THEN "www" ELSE l

\* new URL(url): throws (ok = FALSE) without a scheme, and for http without
\* a host; the host of an http url is lower-cased by the parser.
ParseURL(tokens) ==
  IF tokens = <<>> \/ tokens[1] \notin Schemes
  THEN [ok |-> FALSE, protocol |-> "", hostname |-> <<>>]
  ELSE LET host == Tail(tokens) IN
       IF tokens[1] = "http:" /\ host = <<>>
       THEN [ok |-> FALSE, protocol |-> "", hostname |-> <<>>]
       ELSE [ok |-> TRUE, protocol |-> tokens[1],
             hostname |-> IF tokens[1] = "http:"
                          THEN [i \in DOMAIN host |-> toLowerCase(host[i])]
                          ELSE host]

\* hostname.startsWith('www.')
startsWithWww(hostname) == Len(hostname) >= 2 /\ hostname[1] = "www"

\* protocol.replace(':', '')
SchemeName(protocol) ==
  IF protocol = "chrome:" THEN "chrome"
  ELSE IF protocol = "chrome-extension:" THEN "chrome-extension" ELSE "http"

\* A version of extractDomain that keeps the last two labels whatever the
\* last label is.
extractDomainAnyTld(u, o) ==
  IF u.type # "string" \/ u.tokens = <<>>
  THEN [threw |-> FALSE, value |-> <<o.fallback>>]
  ELSE LET urlObj == ParseURL(u.tokens) IN
       IF ~urlObj.ok THEN [threw |-> FALSE, value |-> <<o.fallback>>]
       ELSE LET h0 == [i \in DOMAIN urlObj.hostname |-> toLowerCase(urlObj.hostname[i])]
                h1 == IF o.removeWww /\ startsWithWww(h0) THEN Tail(h0) ELSE h0
                h2 == IF o.groupSubdomains /\ Len(h1) > 2
                      THEN <<h1[Len(h1) - 1], h1[Len(h1)]>> ELSE h1
            IN IF urlObj.protocol \in {"chrome:", "chrome-extension:"}
               THEN [threw |-> FALSE, value |-> <<SchemeName(urlObj.protocol)>>]
               ELSE [threw |-> FALSE, value |-> h2]

\* extractDomain(url, options): threw is set when an exception leaves it.
extractDomain(u, o) ==
  IF u.type # "string" \/ u.tokens = <<>>
  THEN [threw |-> FALSE, value |-> <<o.fallback>>]
  ELSE LET urlObj == ParseURL(u.tokens) IN
       IF ~urlObj.ok THEN [threw |-> FALSE, value |-> <<o.fallback>>]   \* catch
       ELSE LET h0 == [i \in DOMAIN urlObj.hostname |-> toLowerCase(urlObj.hostname[i])]
                h1 == IF o.removeWww /\ startsWithWww(h0) THEN Tail(h0) ELSE h0
                h2 == IF o.groupSubdomains /\ Len(h1) > 2 /\ h1[Len(h1)] \in commonTLDs
                      THEN <<h1[Len(h1) - 1], h1[Len(h1)]>> ELSE h1
            IN IF urlObj.protocol \in {"chrome:", "chrome-extension:"}
               THEN [threw |-> FALSE, value |-> <<SchemeName(urlObj.protocol)>>]
               ELSE [threw |-> FALSE, value |-> h2]

\* Everything but the extractDomain call is idle.
DomainOnly == CtlIdle /\ ColIdle /\ HullIdle /\ GraphIdle /\ SimIdle

InitDomain ==
  /\ fn = "extractDomain"
  /\ pc = "called"
  /\ url \in Urls
  /\ options \in DomainOptions
  /\ extracted = <<>>
  /\ DomainOnly

\* The call returns (or throws).
ExtractDomain ==
  /\ fn = "extractDomain"
  /\ pc = "called"
  /\ LET r == extractDomain(url, options) IN
       /\ pc' = IF r.threw THEN "threw" ELSE "returned"
       /\ extracted' = r.value
  /\ UNCHANGED <<fn, url, options, ctlvars, colvars, hullvars, graphvars, simvars>>

NextDomain == ExtractDomain

SpecDomain == InitDomain /\ [][NextDomain]_vars

\* The rule of the claim, stated on the url's text.
IsText(u) == u.type = "string" /\ Len(u.tokens) > 0
HasScheme(u) == IsText(u) /\ u.tokens[1] \in Schemes
Parsable(u) == HasScheme(u) /\ (u.tokens[1] = "http:" => Len(u.tokens) > 1)
Internal(u) == u.tokens[1] \in {"chrome:", "chrome-extension:"}
HostOf(u) == [i \in 1..(Len(u.tokens) - 1) |-> toLowerCase(u.tokens[i + 1])]
WithoutWww(h, o) ==
  IF o.removeWww /\ Len(h) >= 2 /\ h[1] = "www" THEN SubSeq(h, 2, Len(h)) ELSE h
Collapsed(h, o) ==
  IF o.groupSubdomains /\ Len(h) > 2 /\ h[Len(h)] \in commonTLDs
  THEN SubSeq(h, Len(h) - 1, Len(h)) ELSE h

\* C19: extractDomain never throws; non-string, empty or unparsable input
\* gives the fallback; a chrome: or chrome-extension: url gives the scheme
\* name; otherwise the hostname, without a leading "www." when removeWww,
\* then collapsed to its last two labels when groupSubdomains, it has more
\* than two labels and the last one is a common TLD.
C19_ExtractDomainRule ==
  pc # "called" =>
    /\ pc = "returned"
    /\ ~Parsable(url) => extracted = <<options.fallback>>
    /\ (Parsable(url) /\ Internal(url)) =>
         extracted = <<IF url.tokens[1] = "chrome:" THEN "chrome" ELSE "chrome-extension">>
    /\ (Parsable(url) /\ ~Internal(url)) =>
         extracted = Collapsed(WithoutWww(HostOf(url), options), options)

\* C19 witness: with both options on, a www host of three labels is
\* returned as its last two labels, which are not collapsed any further.
C19_Witness ==
  /\ pc = "returned"
  /\ options.removeWww /\ options.groupSubdomains
  /\ url.type = "string" /\ url.tokens = <<"http:", "WWW", "a", "uk">>
  /\ extracted = <<"a", "uk">>

----------------------------------------------------------------------------
\* domain-utils.js: generateDomainColor and hslToHex.
\*
\* A string is the sequence of its UTF-16 code units.  A 32-bit integer is
\* kept as its two 16-bit halves (two's complement), so that the arithmetic
\* of the hash wraps exactly as ToInt32 does.

MaxChars == 3      \* length of the generated domain strings

Half == 65536
Word(hi, lo) == [hi |-> hi, lo |-> lo]
Zero32 == Word(0, 0)

\* hash << 5
Shl5(w) ==
  LET lo == w.lo * 32 IN Word((w.hi * 32 + lo \div Half) % Half, lo % Half)

\* a - b, wrapped to 32 bits
Sub32(a, b) ==
  LET lo == a.lo - b.lo
      borrow == IF lo < 0 THEN 1 ELSE 0
  IN Word((a.hi - b.hi - borrow + 2 * Half) % Half, (lo + Half) % Half)

\* w + char, wrapped to 32 bits (char is one code unit)
AddChar(w, c) ==
  LET lo == w.lo + c IN Word((w.hi + lo \div Half) % Half, lo % Half)

IsNegative(w) == w.hi >= Half \div 2

\* Math.abs(hash): a double, so the most negative value has a magnitude.
Abs32(w) == IF IsNegative(w) THEN Sub32(Zero32, w) ELSE w

\* x % m for the non-negative x held in w
Mod32(w, m) == ((w.hi % m) * (Half % m) + w.lo) % m

\* The loop of generateDomainColor over the code units of the string.
RECURSIVE HashOf(_, _)
HashOf(str, hash) ==
  IF str = <<>> THEN hash
  ELSE HashOf(Tail(str), AddChar(Sub32(Shl5(hash), hash), Head(str)))

HexDigits == <<"0", "1", "2", "3", "4", "5", "6", "7", "8", "9",
               "a", "b", "c", "d", "e", "f">>

\* Number.prototype.toString(16)
RECURSIVE toString16(_)
toString16(v) ==
  IF v < 0 THEN <<"-">> \o toString16(0 - v)
  ELSE IF v < 16 THEN <<HexDigits[v + 1]>>
  ELSE toString16(v \div 16) \o <<HexDigits[(v % 16) + 1]>>

\* String.prototype.padStart(2, '0')
padStart2(str) == IF Len(str) < 2 THEN <<"0">> \o str ELSE str

Min2(a, b) == IF a < b THEN a ELSE b
Max2(a, b) == IF a > b THEN a ELSE b

\* f(n) of hslToHex, in exact arithmetic: k is kept in thirtieths, the
\* colour over the denominator 300000.  When 255 * color is exactly half-way
\* between two integers the floating-point product may fall on either side
\* of the half: down says that Math.round gives the lower integer.
HexChannel(n, h, s, l, down) ==
  LET k30 == (30 * n + h) % 360
      t30 == Max2(Min2(Min2(k30 - 90, 270 - k30), 30), 0 - 30)
      num == 255 * (3000 * l - s * Min2(l, 100 - l) * t30)
      rounded == (2 * num + 300000) \div 600000
      tie == (2 * num + 300000) % 600000 = 0
  IN padStart2(toString16(IF tie /\ down THEN rounded - 1 ELSE rounded))

\* hslToHex(h, s, l); ties[i] is the rounding of the i-th channel at a tie.
hslToHex(h, s, l, ties) ==
  <<"#">> \o HexChannel(0, h, s, l, ties[1]) \o HexChannel(8, h, s, l, ties[2])
          \o HexChannel(4, h, s, l, ties[3])

Gray == <<"#", "9", "9", "9", "9", "9", "9">>
unknown == <<117, 110, 107, 110, 111, 119, 110>>

\* JavaScript's remainder of a 32-bit hash by m: it has the sign of the hash.
Rem32(w, m) == IF IsNegative(w) THEN 0 - Mod32(Sub32(Zero32, w), m) ELSE Mod32(w, m)

\* A version of generateDomainColor that takes the remainders of the hash
\* itself, without Math.abs.
generateDomainColorNoAbs(d, ties) ==
  IF d = <<>> \/ d = unknown
  THEN [hashed |-> FALSE, hash |-> Zero32, hue |-> 0, saturation |-> 0,
        lightness |-> 0, value |-> Gray]
  ELSE LET hash == HashOf(d, Zero32)
           hue == Rem32(hash, 360)
           saturation == 65 + Rem32(hash, 20)
           lightness == 45 + Rem32(hash, 20)
       IN [hashed |-> TRUE, hash |-> hash, hue |-> hue, saturation |-> saturation,
           lightness |-> lightness, value |-> hslToHex(hue, saturation, lightness, ties)]

\* generateDomainColor(domain)
generateDomainColor(d, ties) ==
  IF d = <<>> \/ d = unknown
  THEN [hashed |-> FALSE, hash |-> Zero32, hue |-> 0, saturation |-> 0,
        lightness |-> 0, value |-> Gray]
  ELSE LET hash == HashOf(d, Zero32)
           hue == Mod32(Abs32(hash), 360)
           saturation == 65 + Mod32(Abs32(hash), 20)
           lightness == 45 + Mod32(Abs32(hash), 20)
       IN [hashed |-> TRUE, hash |-> hash, hue |-> hue, saturation |-> saturation,
           lightness |-> lightness, value |-> hslToHex(hue, saturation, lightness, ties)]

\* Code units the generated strings are made of: "a", ".", "z", and the
\* largest code unit.
Chars == {97, 46, 122, 65535}

\* "github.com", "GydZG_" (its hash is the most negative 32-bit integer),
\* "unknowm" and "nknown" (neighbours of "unknown").
Samples ==
  { unknown,
    <<103, 105, 116, 104, 117, 98, 46, 99, 111, 109>>,
    <<71, 121, 100, 90, 71, 95>>,
    <<117, 110, 107, 110, 111, 119, 109>>,
    <<110, 107, 110, 111, 119, 110>> }

DomainStrings == Samples \cup UNION {[1..n -> Chars] : n \in 0..MaxChars}

ColorOnly == CtlIdle /\ DomIdle /\ HullIdle /\ GraphIdle /\ SimIdle

InitColor ==
  /\ fn = "generateDomainColor"
  /\ pc = "called"
  /\ domain \in DomainStrings
  /\ color = <<>>
  /\ ColorOnly

GenerateDomainColor ==
  /\ fn = "generateDomainColor"
  /\ pc = "called"
  /\ \E ties \in [1..3 -> BOOLEAN] : color' = generateDomainColor(domain, ties)
  /\ pc' = "returned"
  /\ UNCHANGED <<fn, domain, ctlvars, domvars, hullvars, graphvars, simvars>>

NextColor == GenerateDomainColor

SpecColor == InitColor /\ [][NextColor]_vars

IsHexDigit(ch) == \E i \in DOMAIN HexDigits : HexDigits[i] = ch

\* C20: "unknown" gives the gray #999999 without hashing; for every other
\* (non-empty) string, whatever its 32-bit hash, hue is in [0,360),
\* saturation in [65,85), lightness in [45,65), and the value returned is
\* "#" followed by six hexadecimal digits.
C20_ColorWellFormed ==
  pc = "returned" =>
    /\ domain = unknown => (~color.hashed /\ color.value = Gray)
    /\ (domain # unknown /\ domain # <<>>) =>
         /\ color.hashed
         /\ color.hue >= 0 /\ color.hue < 360
         /\ color.saturation >= 65 /\ color.saturation < 85
         /\ color.lightness >= 45 /\ color.lightness < 65
    /\ Len(color.value) = 7
    /\ color.value[1] = "#"
    /\ \A i \in 2..7 : IsHexDigit(color.value[i])

\* C20 witness: the colour of a string whose hash is the most negative
\* 32-bit integer.
C20_Witness ==
  /\ pc = "returned"
  /\ color.hashed
  /\ color.hash = Word(32768, 0)
  /\ color.hue = 128

----------------------------------------------------------------------------
\* cluster-boundaries.js: calculateConvexHull, crossProduct,
\* createPaddedBoundary.

MaxPoints == 5     \* length of the points array

Coords == 0..2
Pt(x, y) == [x |-> x, y |-> y]
Grid == {Pt(x, y) : x \in Coords, y \in Coords}

\* The arrays of points.  Neither function reads the position of a point in
\* the array except to find the start point, so one arrangement of every
\* multiset is generated: by x, then by y.
PointKey(p) == p.x * Cardinality(Coords) + p.y
PointArrays ==
  {a \in UNION {[1..n -> Grid] : n \in 1..MaxPoints} :
     \A i \in 1..(Len(a) - 1) : PointKey(a[i]) <= PointKey(a[i + 1])}

\* crossProduct(o, a, b)
crossProduct(o, a, b) == (a.x - o.x) * (b.y - o.y) - (a.y - o.y) * (b.x - o.x)

\* The loop that finds the bottom-most, then left-most point (1-based).
RECURSIVE FindStart(_, _, _)
FindStart(pts, i, start) ==
  IF i > Len(pts) THEN start
  ELSE FindStart(pts, i + 1,
         IF pts[i].y < pts[start].y
            \/ (pts[i].y = pts[start].y /\ pts[i].x < pts[start].x)
         THEN i ELSE start)

\* points.filter((_, i) => i !== start)
WithoutIndex(pts, k) == SubSeq(pts, 1, k - 1) \o SubSeq(pts, k + 1, Len(pts))

\* The direction whose Math.atan2 is compared: atan2(0, 0) is 0, the angle
\* of the positive x axis.  Every point is at or above the start point, so
\* the angles lie in [0, pi) and are ordered by the sign of a cross product.
Direction(p, sp) ==
  IF p = sp THEN Pt(1, 0) ELSE Pt(p.x - sp.x, p.y - sp.y)
AngleCompare(a, b, sp) ==
  LET da == Direction(a, sp)
      db == Direction(b, sp)
  IN db.x * da.y - db.y * da.x      \* sign of angleA - angleB
DistSq(p, sp) == (p.x - sp.x) * (p.x - sp.x) + (p.y - sp.y) * (p.y - sp.y)

\* The comparator of the sort is negative: a goes before b.
Before(a, b, sp) ==
  IF AngleCompare(a, b, sp) = 0 THEN DistSq(a, sp) < DistSq(b, sp)
  ELSE AngleCompare(a, b, sp) < 0

\* Array.prototype.sort with that comparator (stable).
RECURSIVE InsertSorted(_, _, _)
InsertSorted(p, sorted, sp) ==
  IF sorted = <<>> THEN <<p>>
  ELSE IF Before(p, Head(sorted), sp) THEN <<p>> \o sorted
  ELSE <<Head(sorted)>> \o InsertSorted(p, Tail(sorted), sp)

RECURSIVE SortByAngle(_, _)
SortByAngle(pts, sp) ==
  IF pts = <<>> THEN <<>>
  ELSE InsertSorted(pts[Len(pts)], SortByAngle(SubSeq(pts, 1, Len(pts) - 1), sp), sp)

\* A version of the while loop that pops on a strict clockwise turn only.
RECURSIVE PopClockwiseStrict(_, _)
PopClockwiseStrict(h, point) ==
  IF Len(h) > 1 /\ crossProduct(h[Len(h) - 1], h[Len(h)], point) < 0
  THEN PopClockwiseStrict(SubSeq(h, 1, Len(h) - 1), point)
  ELSE h

\* while (hull.length > 1 && crossProduct(...) <= 0) hull.pop()
RECURSIVE PopClockwise(_, _)
PopClockwise(h, point) ==
  IF Len(h) > 1 /\ crossProduct(h[Len(h) - 1], h[Len(h)], point) <= 0
  THEN PopClockwise(SubSeq(h, 1, Len(h) - 1), point)
  ELSE h

\* for (const point of sortedPoints) { ...; hull.push(point) }
RECURSIVE GrahamScan(_, _)
GrahamScan(h, rest) ==
  IF rest = <<>> THEN h
  ELSE GrahamScan(Append(PopClockwise(h, Head(rest)), Head(rest)), Tail(rest))

\* calculateConvexHull(points)
calculateConvexHull(pts) ==
  IF Len(pts) < 3 THEN pts
  ELSE LET start == FindStart(pts, 2, 1)
           startPoint == pts[start]
           sortedPoints == SortByAngle(WithoutIndex(pts, start), startPoint)
       IN GrahamScan(<<startPoint>>, sortedPoints)

\* ClusterBoundaryManager options.padding
padding == 25

\* A point of a padded boundary: a point of the circle around base (step
\* i of 12, at distance dist), a hull point returned as it is, or a hull
\* point moved away from the centroid by dist ("shifted": the point is the
\* centroid itself and is moved along x).
BoundaryPoint(kind, base, step, dist) ==
  [kind |-> kind, base |-> base, step |-> step, dist |-> dist]

RECURSIVE SumX(_)
SumX(pts) == IF pts = <<>> THEN 0 ELSE Head(pts).x + SumX(Tail(pts))
RECURSIVE SumY(_)
SumY(pts) == IF pts = <<>> THEN 0 ELSE Head(pts).y + SumY(Tail(pts))

\* createPaddedBoundary(points, padding)
createPaddedBoundary(pts, pad) ==
  IF Len(pts) = 0 THEN <<>>
  ELSE IF Len(pts) = 1
  THEN [i \in 1..12 |-> BoundaryPoint("circle", pts[1], i - 1, pad)]
  ELSE LET h == calculateConvexHull(pts) IN
       IF Len(h) < 3
       THEN [i \in DOMAIN h |-> BoundaryPoint("point", h[i], 0, 0)]
       ELSE [i \in DOMAIN h |->
               IF Len(h) * h[i].x = SumX(h) /\ Len(h) * h[i].y = SumY(h)
               THEN BoundaryPoint("shifted", h[i], 0, pad)
               ELSE BoundaryPoint("expanded", h[i], 0, pad)]

HullOnly == CtlIdle /\ DomIdle /\ ColIdle /\ GraphIdle /\ SimIdle

InitHull ==
  /\ fn \in {"calculateConvexHull", "createPaddedBoundary"}
  /\ pc = "called"
  /\ points \in PointArrays
  /\ hull = <<>>
  /\ padded = <<>>
  /\ HullOnly

CalculateConvexHull ==
  /\ fn = "calculateConvexHull"
  /\ pc = "called"
  /\ hull' = calculateConvexHull(points)
  /\ pc' = "returned"
  /\ UNCHANGED <<fn, points, padded, ctlvars, domvars, colvars, graphvars, simvars>>

\* updateBoundaries: the positions of one domain's nodes are padded; the
\* result is what createSmoothBoundary receives.
CreatePaddedBoundary ==
  /\ fn = "createPaddedBoundary"
  /\ pc = "called"
  /\ padded' = createPaddedBoundary(points, padding)
  /\ pc' = "returned"
  /\ UNCHANGED <<fn, points, hull, ctlvars, domvars, colvars, graphvars, simvars>>

NextHull == CalculateConvexHull \/ CreatePaddedBoundary

SpecHull == InitHull /\ [][NextHull]_vars

Range(seq) == {seq[i] : i \in DOMAIN seq}
Distinct(seq) == \A i, j \in DOMAIN seq : i # j => seq[i] # seq[j]
Succ(i, n) == IF i = n THEN 1 ELSE i + 1

\* p lies on the segment from a to b.
OnSegment(p, a, b) ==
  /\ crossProduct(a, b, p) = 0
  /\ (p.x - a.x) * (p.x - b.x) <= 0
  /\ (p.y - a.y) * (p.y - b.y) <= 0

\* C17: for three or more distinct points the hull's vertices are input
\* points, each once; every input point is inside or on the hull; the
\* vertices are in counter-clockwise order with a strict left turn at each
\* (no collinear or interior point is a vertex; collinear input gives its
\* two end points); the corners of a square and its centre give the four
\* corners.
C17_ConvexHull ==
  (fn = "calculateConvexHull" /\ pc = "returned" /\ Len(points) >= 3 /\ Distinct(points)) =>
    LET n == Len(hull) IN
    /\ Range(hull) \subseteq Range(points)
    /\ Distinct(hull)
    /\ n >= 2
    /\ n = 2 => \A p \in Range(points) : OnSegment(p, hull[1], hull[2])
    /\ n >= 3 =>
         /\ \A i \in 1..n :
              crossProduct(hull[i], hull[Succ(i, n)], hull[Succ(Succ(i, n), n)]) > 0
         /\ \A i \in 1..n : \A p \in Range(points) :
              crossProduct(hull[i], hull[Succ(i, n)], p) >= 0
    /\ Range(points) = {Pt(0, 0), Pt(2, 0), Pt(2, 2), Pt(0, 2), Pt(1, 1)} =>
         hull = <<Pt(0, 0), Pt(2, 0), Pt(2, 2), Pt(0, 2)>>

\* C17 witness: the hull of the square's corners and its centre.
C17_Witness ==
  /\ fn = "calculateConvexHull" /\ pc = "returned"
  /\ Range(points) = {Pt(0, 0), Pt(2, 0), Pt(2, 2), Pt(0, 2), Pt(1, 1)}
  /\ Len(points) = 5
  /\ Len(hull) = 4

\* C18: the boundary made from the positions of a domain's nodes has at
\* least 3 points, or, for exactly one node, is the 12 points of the circle
\* of radius padding around it.
C18_BoundaryHasThreePoints ==
  (fn = "createPaddedBoundary" /\ pc = "returned" /\ Len(points) >= 1) =>
    IF Len(points) = 1
    THEN /\ Len(padded) = 12
         /\ \A i \in 1..12 :
              padded[i] = BoundaryPoint("circle", points[1], i - 1, padding)
    ELSE Len(padded) >= 3

----------------------------------------------------------------------------
\* domain-utils.js: groupNodesByDomain.
\*
\* A tab tree is kept flat: node i is tabTree.nodes[i], with the index of its
\* parent (0: a root, a value of the tabTree object) and its value.  An
\* index is smaller than those of its children and the children array of a
\* node lists its children by index, so the order of the indices is the
\* order of a depth-first walk only within one children array.

MaxNodes == 3      \* nodes in a tab tree

HttpUrl(labels) == [type |-> "string", tokens |-> <<"http:">> \o labels]
MissingUrl == [type |-> "undefined", tokens |-> <<>>]

\* A node object with its url and createdAt (<<>>: absent; <<d>>: d days
\* before the moment the connections are built), or null.
NodeObject(u, createdAt) == [isObject |-> TRUE, url |-> u, createdAt |-> createdAt]
NullNode == [isObject |-> FALSE, url |-> MissingUrl, createdAt |-> <<>>]

\* The node values of the trees that are grouped: a.com, www.a.com, b.com,
\* an object without url, null.
GroupedValues ==
  { NodeObject(HttpUrl(<<"a", "com">>), <<>>),
    NodeObject(HttpUrl(<<"www", "a", "com">>), <<>>),
    NodeObject(HttpUrl(<<"b", "com">>), <<>>),
    NodeObject(MissingUrl, <<>>),
    NullNode }

\* The flat trees of at most MaxNodes nodes over the values vs: a parent
\* has a smaller index and is an object.
Trees(vs) ==
  UNION { { t \in [1..n -> [parent : 0..(n - 1), value : vs]] :
              \A i \in 1..n : /\ t[i].parent < i
                              /\ t[i].parent # 0 => t[t[i].parent].value.isObject }
          : n \in 0..MaxNodes }

\* The values passed as tabTree: null, undefined, or an object.
TabTrees(vs) ==
  {[type |-> ty, nodes |-> <<>>] : ty \in {"null", "undefined"}}
    \cup {[type |-> "object", nodes |-> t] : t \in Trees(vs)}

\* node.children of node i (Object.values(tabTree) for i = 0), in order.
RECURSIVE ChildrenFrom(_, _, _)
ChildrenFrom(nodes, i, j) ==
  IF j > Len(nodes) THEN <<>>
  ELSE (IF nodes[j].parent = i THEN <<j>> ELSE <<>>) \o ChildrenFrom(nodes, i, j + 1)
Children(nodes, i) == ChildrenFrom(nodes, i, 1)

\* The options of groupNodesByDomain.
GroupOptions == [removeWww : BOOLEAN, groupSubdomains : BOOLEAN, minClusterSize : {1, 2}]
DefaultGroupOptions == [removeWww |-> TRUE, groupSubdomains |-> FALSE, minClusterSize |-> 1]

\* !node.url
Falsy(u) == u.type \in {"null", "undefined"} \/ (u.type = "string" /\ u.tokens = <<>>)

\* domainGroups.has(domain): the position of the group, 0 if there is none.
RECURSIVE GroupIndex(_, _, _)
GroupIndex(groups, d, k) ==
  IF k > Len(groups) THEN 0
  ELSE IF groups[k].domain = d THEN k ELSE GroupIndex(groups, d, k + 1)

\* domainGroups.set(domain, {...}) when absent, then group.nodes.push(node).
AddToGroup(groups, d, id) ==
  LET k == GroupIndex(groups, d, 1) IN
  IF k = 0 THEN Append(groups, [domain |-> d, nodes |-> <<id>>])
  ELSE [groups EXCEPT ![k].nodes = Append(@, id)]

\* A version of collectNodes that does not walk the children of a node.
RECURSIVE collectNodesFlat(_, _, _, _)
collectNodesFlat(nodes, id, o, groups) ==
  LET node == nodes[id].value IN
  IF ~node.isObject \/ Falsy(node.url) THEN groups
  ELSE AddToGroup(groups,
         extractDomain(node.url, [removeWww |-> o.removeWww,
                                  groupSubdomains |-> o.groupSubdomains,
                                  fallback |-> "unknown"]).value, id)

\* collectNodes(node, path) and the forEach over node.children.
RECURSIVE collectNodes(_, _, _, _)
RECURSIVE forEachChild(_, _, _, _)
collectNodes(nodes, id, o, groups) ==
  LET node == nodes[id].value IN
  IF ~node.isObject \/ Falsy(node.url) THEN groups
  ELSE forEachChild(nodes, Children(nodes, id), o,
         AddToGroup(groups,
           extractDomain(node.url, [removeWww |-> o.removeWww,
                                    groupSubdomains |-> o.groupSubdomains,
                                    fallback |-> "unknown"]).value, id))
forEachChild(nodes, ids, o, groups) ==
  IF ids = <<>> THEN groups
  ELSE forEachChild(nodes, Tail(ids), o, collectNodes(nodes, Head(ids), o, groups))

\* Object.values(tabTree).forEach(rootNode => collectNodes(rootNode,
\* [rootNode.id])): reading .id of a null root throws before collectNodes
\* is entered.
RECURSIVE forEachRoot(_, _, _, _)
forEachRoot(nodes, ids, o, r) ==
  IF ids = <<>> \/ r.threw THEN r
  ELSE IF ~nodes[Head(ids)].value.isObject
  THEN [r EXCEPT !.threw = TRUE]
  ELSE forEachRoot(nodes, Tail(ids), o,
         [r EXCEPT !.groups = collectNodes(nodes, Head(ids), o, @)])

\* The filter on minClusterSize.
RECURSIVE FilterGroups(_, _)
FilterGroups(groups, min) ==
  IF groups = <<>> THEN <<>>
  ELSE (IF Len(Head(groups).nodes) >= min THEN <<Head(groups)>> ELSE <<>>)
         \o FilterGroups(Tail(groups), min)

\* groupNodesByDomain(tabTree, options)
groupNodesByDomain(tree, o) ==
  LET r == IF tree.type = "object"
           THEN forEachRoot(tree.nodes, Children(tree.nodes, 0), o,
                            [threw |-> FALSE, groups |-> <<>>])
           ELSE [threw |-> FALSE, groups |-> <<>>]
  IN IF r.threw THEN r
     ELSE IF o.minClusterSize > 1
     THEN [r EXCEPT !.groups = FilterGroups(@, o.minClusterSize)]
     ELSE r

GraphOnly == CtlIdle /\ DomIdle /\ ColIdle /\ HullIdle /\ SimIdle

InitGroup ==
  /\ fn = "groupNodesByDomain"
  /\ pc = "called"
  /\ tabTree \in TabTrees(GroupedValues)
  /\ groupOptions = <<>> /\ domainGroups = <<>>
  /\ connOptions = <<>> /\ connectionMap = <<>> /\ connections = <<>>
  /\ GraphOnly

\* groupNodesByDomain is called with some options and returns or throws.
\* As the first half of processData it is called with the defaults or with
\* a larger minClusterSize.
GroupNodesByDomain ==
  /\ pc = "called"
  /\ fn \in {"groupNodesByDomain", "buildDomainConnections"}
  /\ \E o \in GroupOptions :
       /\ fn = "buildDomainConnections" =>
            (o.removeWww /\ ~o.groupSubdomains)
       /\ LET r == groupNodesByDomain(tabTree, o) IN
            /\ groupOptions' = o
            /\ domainGroups' = r.groups
            /\ pc' = IF r.threw THEN "threw"
                     ELSE IF fn = "groupNodesByDomain" THEN "returned" ELSE "grouped"
  /\ UNCHANGED <<fn, tabTree, connOptions, connectionMap, connections,
                 ctlvars, domvars, colvars, hullvars, simvars>>

NextGroup == GroupNodesByDomain

SpecGroup == InitGroup /\ [][NextGroup]_vars

\* Vocabulary: the nodes of the tree, the well-formed ones, the nodes a
\* walk from the roots reaches through well-formed nodes only.
NodeIds == DOMAIN tabTree.nodes
WellFormed(i) == tabTree.nodes[i].value.isObject /\ ~Falsy(tabTree.nodes[i].value.url)
RECURSIVE ReachedThroughWellFormed(_)
ReachedThroughWellFormed(i) ==
  /\ WellFormed(i)
  /\ tabTree.nodes[i].parent # 0 => ReachedThroughWellFormed(tabTree.nodes[i].parent)
Occurrences(i) ==
  {<<k, j>> \in {<<k, j>> \in (DOMAIN domainGroups) \X (1..MaxNodes + 1) :
                   j \in DOMAIN domainGroups[k].nodes} :
     domainGroups[k].nodes[j] = i}
ResolvedDomain(i) ==
  extractDomain(tabTree.nodes[i].value.url,
                [removeWww |-> groupOptions.removeWww,
                 groupSubdomains |-> groupOptions.groupSubdomains,
                 fallback |-> "unknown"]).value
RECURSIVE SumSizes(_)
SumSizes(groups) ==
  IF groups = <<>> THEN 0 ELSE Len(Head(groups).nodes) + SumSizes(Tail(groups))

C12_NeverThrowsOnShape ==
  (fn = "groupNodesByDomain" /\ pc # "called") =>
    /\ pc = "returned"
    /\ tabTree.type # "object" => domainGroups = <<>>
    /\ (tabTree.type = "object" /\ groupOptions.minClusterSize = 1) =>
         \A i \in NodeIds :
           /\ ReachedThroughWellFormed(i) => Cardinality(Occurrences(i)) = 1
           /\ ~WellFormed(i) => Occurrences(i) = {}

----------------------------------------------------------------------------
\* The connection mapper: buildDomainConnections,
\* calculateConnectionStrength, checkBidirectional.
\*
\* A strength is the exact fraction num / den.  Weights and the threshold
\* are in tenths, ages in days.

\* The node values of the trees whose connections are built: a.com created
\* 30 days in the future, b.com without createdAt, b.com created 45 days
\* ago.
ConnectedValues ==
  { NodeObject(HttpUrl(<<"a", "com">>), <<0 - 30>>),
    NodeObject(HttpUrl(<<"b", "com">>), <<>>),
    NodeObject(HttpUrl(<<"b", "com">>), <<45>>) }

\* The options of buildDomainConnections; frequencyWeight and recencyWeight
\* are properties a caller may add to the object.
ConnOptions ==
  [includeIntraDomain : BOOLEAN, weightByFrequency : BOOLEAN, weightByRecency : BOOLEAN,
   minConnectionStrength : {0, 1}, frequencyWeight : {6, 50}, recencyWeight : {4}]

DefaultDomainOptions == [removeWww |-> TRUE, groupSubdomains |-> FALSE, fallback |-> "unknown"]

\* child.createdAt || Date.now(), as an age at the moment of the build
Timestamp(node) == IF node.createdAt = <<>> THEN 0 ELSE node.createdAt[1]

\* connectionMap.has(key): the position of the entry, 0 if there is none.
RECURSIVE ConnectionIndex(_, _, _, _)
ConnectionIndex(map, src, tgt, k) ==
  IF k > Len(map) THEN 0
  ELSE IF map[k].source = src /\ map[k].target = tgt THEN k
  ELSE ConnectionIndex(map, src, tgt, k + 1)

\* A version of the loop body that starts a new entry for every child.
AccumulateChildApart(nodes, r, group, id, c, o) ==
  LET child == nodes[c].value IN
  IF ~child.isObject THEN [r EXCEPT !.threw = TRUE]
  ELSE LET childDomain == extractDomain(child.url, DefaultDomainOptions).value IN
       IF ~o.includeIntraDomain /\ childDomain = group.domain THEN r
       ELSE [r EXCEPT !.map = Append(@,
               [source |-> group.domain, target |-> childDomain,
                connections |-> <<[parentId |-> id, childId |-> c,
                                   timestamp |-> Timestamp(child)]>>,
                frequency |-> 1])]

\* The body of node.children.forEach(child => ...) for one child.
AccumulateChild(nodes, r, group, id, c, o) ==
  LET child == nodes[c].value IN
  IF ~child.isObject THEN [r EXCEPT !.threw = TRUE]       \* child.url of null
  ELSE LET childDomain == extractDomain(child.url, DefaultDomainOptions).value IN
       IF ~o.includeIntraDomain /\ childDomain = group.domain THEN r
       ELSE LET k == ConnectionIndex(r.map, group.domain, childDomain, 1)
                entry == [parentId |-> id, childId |-> c, timestamp |-> Timestamp(child)]
            IN IF k = 0
               THEN [r EXCEPT !.map = Append(@,
                       [source |-> group.domain, target |-> childDomain,
                        connections |-> <<entry>>, frequency |-> 1])]
               ELSE [r EXCEPT !.map[k].connections = Append(@, entry),
                              !.map[k].frequency = @ + 1]

RECURSIVE AccumulateChildren(_, _, _, _, _, _)
AccumulateChildren(nodes, r, group, id, cs, o) ==
  IF cs = <<>> \/ r.threw THEN r
  ELSE AccumulateChildren(nodes, AccumulateChild(nodes, r, group, id, Head(cs), o),
                          group, id, Tail(cs), o)

\* group.nodes.forEach(node => ...)
RECURSIVE AccumulateNodes(_, _, _, _, _)
AccumulateNodes(nodes, r, group, ids, o) ==
  IF ids = <<>> \/ r.threw THEN r
  ELSE AccumulateNodes(nodes,
         AccumulateChildren(nodes, r, group, Head(ids), Children(nodes, Head(ids)), o),
         group, Tail(ids), o)

\* domainGroups.forEach(group => ...)
RECURSIVE AccumulateGroups(_, _, _, _)
AccumulateGroups(nodes, r, groups, o) ==
  IF groups = <<>> \/ r.threw THEN r
  ELSE AccumulateGroups(nodes,
         AccumulateNodes(nodes, r, Head(groups), Head(groups).nodes, o),
         Tail(groups), o)

\* Math.max(...connection.connections.map(c => c.timestamp || 0)): the most
\* recent timestamp is the smallest age.
RECURSIVE MostRecent(_)
MostRecent(cs) ==
  IF Len(cs) = 1 THEN cs[1].timestamp
  ELSE Min2(cs[1].timestamp, MostRecent(Tail(cs)))

\* A version of calculateConnectionStrength without the final clamp.
calculateConnectionStrengthUnclamped(connection, groups, o) ==
  LET k == GroupIndex(groups, connection.source, 1)
      maxPossibleConnections == IF k = 0 THEN 1 ELSE Len(groups[k].nodes)
      den == 300 * maxPossibleConnections
      frequencyPart ==
        IF o.weightByFrequency
        THEN o.frequencyWeight * 30 * Min2(connection.frequency, maxPossibleConnections)
        ELSE 0
      recencyPart ==
        IF o.weightByRecency
        THEN o.recencyWeight * maxPossibleConnections
               * Max2(0, 30 - MostRecent(connection.connections))
        ELSE 0
  IN [num |-> frequencyPart + recencyPart, den |-> den]

\* calculateConnectionStrength(connection, domainGroups, options):
\*   frequencyScore = min(frequency / maxPossibleConnections, 1)
\*   recencyScore   = max(0, 1 - days / 30)
\*   strength       = max(0, min(1, frequencyScore * fw + recencyScore * rw))
calculateConnectionStrength(connection, groups, o) ==
  LET k == GroupIndex(groups, connection.source, 1)
      maxPossibleConnections == IF k = 0 THEN 1 ELSE Len(groups[k].nodes)
      den == 300 * maxPossibleConnections
      frequencyPart ==
        IF o.weightByFrequency
        THEN o.frequencyWeight * 30 * Min2(connection.frequency, maxPossibleConnections)
        ELSE 0
      recencyPart ==
        IF o.weightByRecency
        THEN o.recencyWeight * maxPossibleConnections
               * Max2(0, 30 - MostRecent(connection.connections))
        ELSE 0
  IN [num |-> Max2(0, Min2(den, frequencyPart + recencyPart)), den |-> den]

\* checkBidirectional(connection, connectionMap)
checkBidirectional(connection, map) ==
  ConnectionIndex(map, connection.target, connection.source, 1) # 0

\* The options buildDomainConnections hands to calculateConnectionStrength:
\* only weightByFrequency and weightByRecency, so the weights are the
\* defaults 0.6 and 0.4.
StrengthOptions(o) ==
  [weightByFrequency |-> o.weightByFrequency, weightByRecency |-> o.weightByRecency,
   frequencyWeight |-> 6, recencyWeight |-> 4]

\* strength >= minConnectionStrength
AtLeast(strength, tenths) == strength.num * 10 >= tenths * strength.den

\* A version of the conversion loop that pushes every connection.
RECURSIVE ConvertAll(_, _, _, _, _)
ConvertAll(map, k, groups, o, out) ==
  IF k > Len(map) THEN out
  ELSE LET strength == calculateConnectionStrength(map[k], groups, StrengthOptions(o))
       IN ConvertAll(map, k + 1, groups, o,
            Append(out, [source |-> map[k].source, target |-> map[k].target,
                         connections |-> map[k].connections,
                         frequency |-> map[k].frequency, strength |-> strength,
                         bidirectional |-> checkBidirectional(map[k], map)]))

\* A version of the conversion loop that looks the reverse edge up among the
\* connections that pass the threshold.
RECURSIVE ConvertSurvivors(_, _, _, _, _)
ConvertSurvivors(map, k, groups, o, out) ==
  IF k > Len(map) THEN out
  ELSE LET strength == calculateConnectionStrength(map[k], groups, StrengthOptions(o))
           Passes(c) == AtLeast(calculateConnectionStrength(c, groups, StrengthOptions(o)),
                                o.minConnectionStrength)
       IN ConvertSurvivors(map, k + 1, groups, o,
            IF AtLeast(strength, o.minConnectionStrength)
            THEN Append(out, [source |-> map[k].source, target |-> map[k].target,
                              connections |-> map[k].connections,
                              frequency |-> map[k].frequency, strength |-> strength,
                              bidirectional |->
                                checkBidirectional(map[k], SelectSeq(map, Passes))])
            ELSE out)

\* connectionMap.forEach(connection => ...)
RECURSIVE Convert(_, _, _, _, _)
Convert(map, k, groups, o, out) ==
  IF k > Len(map) THEN out
  ELSE LET strength == calculateConnectionStrength(map[k], groups, StrengthOptions(o))
       IN Convert(map, k + 1, groups, o,
            IF AtLeast(strength, o.minConnectionStrength)
            THEN Append(out, [source |-> map[k].source, target |-> map[k].target,
                              connections |-> map[k].connections,
                              frequency |-> map[k].frequency, strength |-> strength,
                              bidirectional |-> checkBidirectional(map[k], map)])
            ELSE out)

\* connections.sort((a, b) => b.strength - a.strength) (stable)
StrongerThan(a, b) == a.strength.num * b.strength.den > b.strength.num * a.strength.den
RECURSIVE InsertByStrength(_, _)
InsertByStrength(c, sorted) ==
  IF sorted = <<>> THEN <<c>>
  ELSE IF StrongerThan(c, Head(sorted)) THEN <<c>> \o sorted
  ELSE <<Head(sorted)>> \o InsertByStrength(c, Tail(sorted))
RECURSIVE SortByStrength(_)
SortByStrength(cs) ==
  IF cs = <<>> THEN <<>>
  ELSE InsertByStrength(Head(cs), SortByStrength(Tail(cs)))

\* buildDomainConnections(domainGroups, options); nodes are the nodes the
\* groups' node objects and their children arrays refer to.
buildDomainConnections(nodes, groups, o) ==
  LET r == AccumulateGroups(nodes, [threw |-> FALSE, map |-> <<>>], groups, o) IN
  IF r.threw THEN [threw |-> TRUE, map |-> r.map, connections |-> <<>>]
  ELSE [threw |-> FALSE, map |-> r.map,
        connections |-> SortByStrength(Convert(r.map, 1, groups, o, <<>>))]

InitConn ==
  /\ fn = "buildDomainConnections"
  /\ pc = "called"
  /\ tabTree \in {[type |-> "object", nodes |-> t] : t \in Trees(ConnectedValues)}
  /\ groupOptions = <<>> /\ domainGroups = <<>>
  /\ connOptions = <<>> /\ connectionMap = <<>> /\ connections = <<>>
  /\ GraphOnly

\* buildDomainConnections is called on the groups with some options.
BuildDomainConnections ==
  /\ fn = "buildDomainConnections"
  /\ pc = "grouped"
  /\ \E o \in ConnOptions :
       LET r == buildDomainConnections(tabTree.nodes, domainGroups, o) IN
       /\ connOptions' = o
       /\ connectionMap' = r.map
       /\ connections' = r.connections
       /\ pc' = IF r.threw THEN "threw" ELSE "returned"
  /\ UNCHANGED <<fn, tabTree, groupOptions, domainGroups,
                 ctlvars, domvars, colvars, hullvars, simvars>>

NextConn == GroupNodesByDomain \/ BuildDomainConnections

SpecConn == InitConn /\ [][NextConn]_vars

\* The vocabulary of the claims about the connections, computed from the
\* tree and the groups alone.
Built == fn = "buildDomainConnections" /\ pc = "returned"
GroupKeys == {domainGroups[k].domain : k \in DOMAIN domainGroups}
DomainOf(i) == extractDomain(tabTree.nodes[i].value.url, DefaultDomainOptions).value
AgeOf(i) == Timestamp(tabTree.nodes[i].value)
\* The parent-child pairs that are accumulated: the parent is a node of a
\* surviving group, and the domains differ unless includeIntraDomain.
EdgePairs ==
  {e \in NodeIds \X NodeIds :
     /\ tabTree.nodes[e[2]].parent = e[1]
     /\ DomainOf(e[1]) \in GroupKeys
     /\ connOptions.includeIntraDomain \/ DomainOf(e[1]) # DomainOf(e[2])}
Accumulated == {<<DomainOf(e[1]), DomainOf(e[2])>> : e \in EdgePairs}
PairsOf(d) == {e \in EdgePairs : <<DomainOf(e[1]), DomainOf(e[2])>> = d}
SizeOf(d) == Cardinality({i \in NodeIds : DomainOf(i) = d})
YoungestAge(d) == CHOOSE a \in {AgeOf(e[2]) : e \in PairsOf(d)} :
                    \A e \in PairsOf(d) : a <= AgeOf(e[2])
\* The strength of the accumulated edge d as the specification defines it,
\* in 300ths, with the default weights 0.6 and 0.4.
FrequencyScore300(d) ==
  IF Cardinality(PairsOf(d)) >= SizeOf(d[1]) THEN 300
  ELSE (300 * Cardinality(PairsOf(d))) \div SizeOf(d[1])
RecencyScore300(d) ==
  IF YoungestAge(d) >= 30 THEN 0 ELSE 10 * (30 - YoungestAge(d))
Strength3000(d) ==
  LET sum == (IF connOptions.weightByFrequency THEN 6 * FrequencyScore300(d) ELSE 0)
             + (IF connOptions.weightByRecency THEN 4 * RecencyScore300(d) ELSE 0)
  IN IF sum > 3000 THEN 3000 ELSE sum
ConnectionKeys == {<<connections[i].source, connections[i].target>> : i \in DOMAIN connections}

\* C13: when the groups were filtered with minClusterSize > 1, every
\* connection built from the surviving groups has its source and its target
\* among the keys of the surviving groups.
C13_DanglingEdgesDropped ==
  (Built /\ groupOptions.minClusterSize > 1) =>
    \A i \in DOMAIN connections :
      /\ connections[i].source \in GroupKeys
      /\ connections[i].target \in GroupKeys

\* C14: every connection in the output has 0 <= strength <= 1 and
\* frequency >= 1, whatever the options, the weights a caller adds to them,
\* and the timestamps (in the future, missing).
C14_StrengthAndFrequencyInRange ==
  Built =>
    \A i \in DOMAIN connections :
      /\ 0 <= connections[i].strength.num
      /\ connections[i].strength.num <= connections[i].strength.den
      /\ connections[i].strength.den > 0
      /\ connections[i].frequency >= 1

\* A connection whose child was created in the future is in the output with
\* strength 1, built with weights supplied by the caller.
C14_Witness ==
  /\ Built
  /\ connOptions.frequencyWeight = 50
  /\ connOptions.weightByFrequency /\ connOptions.weightByRecency
  /\ \E i \in DOMAIN connections :
       /\ connections[i].strength.num = connections[i].strength.den
       /\ \E j \in DOMAIN connections[i].connections :
            connections[i].connections[j].timestamp < 0
  /\ \E i \in DOMAIN connections :
       \E j \in DOMAIN connections[i].connections :
         tabTree.nodes[connections[i].connections[j].childId].value.createdAt = <<>>

\* C15: the output holds exactly the accumulated edges whose strength is at
\* least minConnectionStrength, each once and with that strength; with
\* weightByFrequency and weightByRecency both false every accumulated edge
\* has strength 0, and the output is empty at the threshold 0.1.
C15_OutputIsThresholdedEdges ==
  Built =>
    /\ ConnectionKeys =
         {d \in Accumulated : Strength3000(d) >= 300 * connOptions.minConnectionStrength}
    /\ Cardinality(ConnectionKeys) = Len(connections)
    /\ \A i \in DOMAIN connections :
         connections[i].strength.num * 3000 =
           Strength3000(<<connections[i].source, connections[i].target>>)
             * connections[i].strength.den
    /\ (~connOptions.weightByFrequency /\ ~connOptions.weightByRecency) =>
         /\ \A d \in Accumulated : Strength3000(d) = 0
         /\ \A k \in DOMAIN connectionMap :
              calculateConnectionStrength(connectionMap[k], domainGroups,
                                          StrengthOptions(connOptions)).num = 0
         /\ connOptions.minConnectionStrength = 1 => connections = <<>>

\* Both flags are false, edges were accumulated, the threshold is 0.1 and
\* the output is empty.
C15_Witness ==
  /\ Built
  /\ ~connOptions.weightByFrequency /\ ~connOptions.weightByRecency
  /\ connOptions.minConnectionStrength = 1
  /\ Cardinality(Accumulated) = 2
  /\ connections = <<>>

\* C16: a connection's bidirectional flag is true exactly when the edge
\* with the reversed key was accumulated from the tree, whether or not that
\* edge is in the output.
C16_BidirectionalIffReverseAccumulated ==
  Built =>
    \A i \in DOMAIN connections :
      connections[i].bidirectional
        <=> (<<connections[i].target, connections[i].source>> \in Accumulated)

\* A connection is flagged bidirectional although its reverse edge did not
\* pass the threshold, and another output has a connection that is not
\* bidirectional.
C16_Witness ==
  /\ Built
  /\ \E i \in DOMAIN connections :
       /\ connections[i].bidirectional
       /\ <<connections[i].target, connections[i].source>> \notin ConnectionKeys
       /\ <<connections[i].target, connections[i].source>> \in Accumulated

----------------------------------------------------------------------------
\* Properties of the controller's transitions.

\* switchMode(m, true) has just started a transition to the mode m.
TransitionStarted(m) ==
  /\ lastOp.op = "switchMode" /\ lastOp.animate /\ ~lastOp.threw
  /\ lastOp.mode = m /\ lastOp.prevMode \in Modes \ {m}

\* Idle(m): no transition is pending, m is the current mode and its
\* presentation is current and was not torn down.
IdleIn(m) ==
  /\ Pending = {}
  /\ currentMode = m
  /\ currentVisualizer # NoVis
  /\ pres[currentVisualizer].kind = m
  /\ ~pres[currentVisualizer].torn

\* C21: (on runs in which every requested mode is recognised and no
\* destroy() throws) when every completion signal eventually fires, an
\* animated switchMode(target) that starts a transition is followed by a
\* moment at which the controller is idle in the target mode with the
\* target presentation active, whatever calls arrive while it is pending.
C21_TransitionRunsToCompletion ==
  \A m \in Modes : (TransitionStarted(m) /\ ~irregular) ~> (IdleIn(m) \/ irregular)

\* The creation step of an animated transition has just thrown: the old
\* presentation was faded out and torn down, createVisualizer threw and the
\* promise chain is rejected.
CreationThrew == lastOp.op = "delayEnd" /\ lastOp.threw

\* C22: when constructing the target throws during an animated transition,
\* the overlay of that transition is out of the container and, completion
\* signals firing, the controller comes back to an idle state: no
\* transition pending and the presentation of the current mode active.
C22_FailedCreationReturnsToIdle ==
  [](CreationThrew =>
       /\ Has(did, "overlayRemoved")
       /\ <>(\E m \in Modes : IdleIn(m)))

\* C23: a presentation is constructed from the tree most recently passed to
\* updateData (the constructor's tree if there was none): every updateData
\* call records its tree, also when pushing it into the current
\* presentation throws, nothing else changes the recorded tree, and every
\* presentation created is built from the recorded tree.
C23_BuiltFromLatestData ==
  [][/\ lastOp'.op = "updateData" => data' = data + 1
     /\ lastOp'.op # "updateData" => data' = data
     /\ Len(pres') > Len(pres) =>
          /\ Len(pres') = Len(pres) + 1
          /\ currentVisualizer' = Len(pres')
          /\ pres'[Len(pres')].built = data'
          /\ pres'[Len(pres')].ver = data']_vars

\* C23 witness: the creation step of an animated transition has built the
\* new presentation from a tree that updateData passed after the transition
\* had started.
C23_Witness ==
  /\ lastOp.op = "delayEnd" /\ ~lastOp.threw
  /\ \E c \in DOMAIN chains :
       /\ chains[c].pc = "fadeIn"
       /\ chains[c].startData < data
  /\ pres[currentVisualizer].built = data

----------------------------------------------------------------------------
\* C24: before the threshold is applied there is one accumulated edge for
\* each ordered pair (source, target) that has a parent-child pair and no
\* other; its frequency is the length of its contributing list, and the
\* list holds each parent-child pair of the groups whose parent is in the
\* source domain and whose child resolves to the target exactly once.
C24_ParallelEdgesAccumulate ==
  Built =>
    /\ \A j, k \in DOMAIN connectionMap :
         (connectionMap[j].source = connectionMap[k].source
            /\ connectionMap[j].target = connectionMap[k].target) => j = k
    /\ {<<connectionMap[k].source, connectionMap[k].target>> : k \in DOMAIN connectionMap}
         = Accumulated
    /\ \A k \in DOMAIN connectionMap :
         LET e == connectionMap[k]
             ps == PairsOf(<<e.source, e.target>>)
         IN /\ e.frequency = Len(e.connections)
            /\ e.frequency = Cardinality(ps)
            /\ {<<e.connections[j].parentId, e.connections[j].childId>> :
                  j \in DOMAIN e.connections} = ps

\* Two navigations from a.com to b.com are one edge of frequency 2, next to
\* an edge of frequency 1.
C24_Witness ==
  /\ Built
  /\ \E k \in DOMAIN connectionMap :
       connectionMap[k].frequency = 2 /\ connectionMap[k].source # connectionMap[k].target

----------------------------------------------------------------------------
\* ClusterVisualizer.processData: the domain groups, the connections, the
\* enhanced nodes and the nodes and links of the simulation, derived from
\* one tab tree.

\* The node values of the trees a cluster session is built from: a.com,
\* b.com, an object without url, null.
SessionValues ==
  { NodeObject(HttpUrl(<<"a", "com">>), <<>>),
    NodeObject(HttpUrl(<<"b", "com">>), <<>>),
    NodeObject(MissingUrl, <<>>),
    NullNode }

\* buildDomainConnections(this.domainGroups): the default options.
DefaultConnOptions ==
  [includeIntraDomain |-> FALSE, weightByFrequency |-> TRUE, weightByRecency |-> TRUE,
   minConnectionStrength |-> 1, frequencyWeight |-> 6, recencyWeight |-> 4]

\* createEnhancedNode(originalNode): the node with its domain.
createEnhancedNode(nodes, id) ==
  [id |-> id, domain |-> extractDomain(nodes[id].value.url, DefaultDomainOptions).value]

\* enhancedNodes.set(node.id, enhancedNode)
RECURSIVE MapIndex(_, _, _)
MapIndex(map, id, k) ==
  IF k > Len(map) THEN 0
  ELSE IF map[k].id = id THEN k ELSE MapIndex(map, id, k + 1)
MapSet(map, e) ==
  LET k == MapIndex(map, e.id, 1) IN
  IF k = 0 THEN Append(map, e) ELSE [map EXCEPT ![k] = e]

\* processNode(node, context) and its loop over node.children: the context
\* of a child reads child.children before processNode tests the child.
RECURSIVE processNode(_, _, _)
RECURSIVE processChildren(_, _, _)
processNode(nodes, id, r) ==
  IF ~nodes[id].value.isObject THEN r
  ELSE processChildren(nodes, Children(nodes, id),
                       [r EXCEPT !.map = MapSet(@, createEnhancedNode(nodes, id))])
processChildren(nodes, ids, r) ==
  IF ids = <<>> \/ r.threw THEN r
  ELSE IF ~nodes[Head(ids)].value.isObject THEN [r EXCEPT !.threw = TRUE]
  ELSE processChildren(nodes, Tail(ids), processNode(nodes, Head(ids), r))

\* Object.values(tabTree).forEach(rootNode => ...): the context of a root
\* reads rootNode.id.
RECURSIVE processRoots(_, _, _)
processRoots(nodes, ids, r) ==
  IF ids = <<>> \/ r.threw THEN r
  ELSE IF ~nodes[Head(ids)].value.isObject THEN [r EXCEPT !.threw = TRUE]
  ELSE processRoots(nodes, Tail(ids), processNode(nodes, Head(ids), r))

\* createEnhancedNodeCollection(tabTree)
createEnhancedNodeCollection(tree) ==
  IF tree.type = "object"
  THEN processRoots(tree.nodes, Children(tree.nodes, 0), [threw |-> FALSE, map |-> <<>>])
  ELSE [threw |-> FALSE, map |-> <<>>]

\* fx: null
NotFixed == <<>>

\* The positions Math.random() * width, Math.random() * height may give.
Positions == {<<0, 0>>, <<3, 1>>}

\* this.nodes = Array.from(this.enhancedNodes.values()).map(...)
SimulationNodes(map, pos) ==
  [k \in DOMAIN map |->
     [id |-> map[k].id, domain |-> map[k].domain,
      x |-> pos[k][1], y |-> pos[k][2], fx |-> NotFixed, fy |-> NotFixed,
      vx |-> 0, vy |-> 0]]

\* connection.connections.forEach(conn => this.links.push({...}))
InterDomainLinks(connection) ==
  [j \in DOMAIN connection.connections |->
     [source |-> connection.connections[j].parentId,
      target |-> connection.connections[j].childId,
      strength |-> connection.strength, type |-> "inter-domain",
      sourceDomain |-> connection.source, targetDomain |-> connection.target]]

RECURSIVE AllInterDomainLinks(_)
AllInterDomainLinks(cs) ==
  IF cs = <<>> THEN <<>>
  ELSE InterDomainLinks(Head(cs)) \o AllInterDomainLinks(Tail(cs))

\* The domain property of a node of the tab tree.  The nodes that
\* background.js creates (id, tabId, url, title, createdAt, children, ...)
\* have none: child.domain is undefined.
DomainProperty(node) == [present |-> FALSE, value |-> <<>>]

\* child.domain === node.domain
SameDomain(child, d) == DomainProperty(child).present /\ DomainProperty(child).value = d

\* node.children.forEach(child => { if (child.domain === node.domain) push })
\* for the node id of the group of domain d.
RECURSIVE IntraLinksOfNode(_, _, _, _)
IntraLinksOfNode(nodes, d, id, cs) ==
  IF cs = <<>> THEN <<>>
  ELSE (IF SameDomain(nodes[Head(cs)].value, d)
        THEN <<[source |-> id, target |-> Head(cs), strength |-> [num |-> 1, den |-> 1],
                type |-> "intra-domain", sourceDomain |-> d, targetDomain |-> d]>>
        ELSE <<>>)
       \o IntraLinksOfNode(nodes, d, id, Tail(cs))

RECURSIVE IntraLinksOfGroup(_, _, _)
IntraLinksOfGroup(nodes, d, ids) ==
  IF ids = <<>> THEN <<>>
  ELSE IntraLinksOfNode(nodes, d, Head(ids), Children(nodes, Head(ids)))
         \o IntraLinksOfGroup(nodes, d, Tail(ids))

RECURSIVE IntraDomainLinks(_, _)
IntraDomainLinks(nodes, groups) ==
  IF groups = <<>> THEN <<>>
  ELSE IntraLinksOfGroup(nodes, Head(groups).domain, Head(groups).nodes)
         \o IntraDomainLinks(nodes, Tail(groups))

\* prepareSimulationData(): this.links
SimulationLinks(nodes, groups, cs) ==
  AllInterDomainLinks(cs) \o IntraDomainLinks(nodes, groups)

SessionOnly == CtlIdle /\ DomIdle /\ ColIdle /\ HullIdle

InitSession ==
  /\ fn = "processData"
  /\ pc = "called"
  /\ tabTree \in {[type |-> "object", nodes |-> t] : t \in Trees(SessionValues)}
  /\ groupOptions = <<>> /\ domainGroups = <<>>
  /\ connOptions = <<>> /\ connectionMap = <<>> /\ connections = <<>>
  /\ SimIdle
  /\ SessionOnly

\* processData(): groupNodesByDomain, buildDomainConnections,
\* createEnhancedNodeCollection, prepareSimulationData, each with its
\* default options; the first exception leaves processData.
ProcessData ==
  /\ fn = "processData"
  /\ pc = "called"
  /\ LET g == groupNodesByDomain(tabTree, DefaultGroupOptions)
         c == buildDomainConnections(tabTree.nodes, g.groups, DefaultConnOptions)
         n == createEnhancedNodeCollection(tabTree)
         threw == g.threw \/ c.threw \/ n.threw
     IN /\ pc' = IF threw THEN "threw" ELSE "returned"
        /\ groupOptions' = DefaultGroupOptions
        /\ domainGroups' = IF g.threw THEN <<>> ELSE g.groups
        /\ connOptions' = DefaultConnOptions
        /\ connectionMap' = IF g.threw THEN <<>> ELSE c.map
        /\ connections' = IF g.threw \/ c.threw THEN <<>> ELSE c.connections
        /\ enhancedNodes' = IF threw THEN <<>> ELSE n.map
        /\ \E pos \in [1..Len(n.map) -> Positions] :
             simulationNodes' = IF threw THEN <<>> ELSE SimulationNodes(n.map, pos)
        /\ simulationLinks' =
             IF threw THEN <<>>
             ELSE SimulationLinks(tabTree.nodes, g.groups, c.connections)
  /\ UNCHANGED <<fn, tabTree, clusterStrength, alpha, ctlvars, domvars, colvars, hullvars>>

NextSession == ProcessData

SpecSession == InitSession /\ [][NextSession]_vars

\* Vocabulary: the nodes with a URL, the parent-child pairs between them.
HasUrl(i) == tabTree.nodes[i].value.isObject /\ ~Falsy(tabTree.nodes[i].value.url)
Processed == fn = "processData" /\ pc = "returned"
LinksBetween(i, c) ==
  {k \in DOMAIN simulationLinks :
     simulationLinks[k].source = i /\ simulationLinks[k].target = c}

\* C26: after processData, for every parent-child pair of the tree whose
\* two nodes have URLs, within one domain or across two, the links of the
\* simulation contain exactly one link from the parent to the child.
C26_EveryRelationshipIsALink ==
  Processed =>
    \A i, c \in NodeIds :
      (tabTree.nodes[c].parent = i /\ HasUrl(i) /\ HasUrl(c)) =>
        Cardinality(LinksBetween(i, c)) = 1

\* C30: after processData, the ids of the simulation's nodes are the ids of
\* the nodes of the domain groups, and the domain of each simulation node
\* is the key of the group that contains it.
C30_NodesAndGroupsCoincide ==
  Processed =>
    /\ {simulationNodes[k].id : k \in DOMAIN simulationNodes}
         = UNION {Range(domainGroups[g].nodes) : g \in DOMAIN domainGroups}
    /\ \A k \in DOMAIN simulationNodes :
         \E g \in DOMAIN domainGroups :
           /\ domainGroups[g].domain = simulationNodes[k].domain
           /\ \E j \in DOMAIN domainGroups[g].nodes :
                domainGroups[g].nodes[j] = simulationNodes[k].id

----------------------------------------------------------------------------
\* ClusterVisualizer.clusterForce: one tick of the clustering force.
\*
\* Positions are integers.  A velocity is kept in units of
\* 1 / (100 * Unit), where Unit is a common multiple of the possible group
\* sizes, so that centroid * strength * alpha is exact: clusterStrength and
\* alpha are in tenths.

MaxSimNodes == 3   \* nodes in the simulation

RECURSIVE Factorial(_)
Factorial(n) == IF n <= 1 THEN 1 ELSE n * Factorial(n - 1)
Unit == Factorial(MaxSimNodes)

SimDomains == {<<"a", "com">>, <<"b", "com">>, <<"unknown">>}

\* The velocities the other forces have left on the nodes before the tick.
Velocities == {<<0, 0>>, <<5 * Unit, 0 - 2 * Unit>>}

\* The nodes of a running simulation: a domain, a position, a velocity; the
\* node being dragged, if any, is pinned to its position (d.fx = d.x).
SimNodeArrays ==
  UNION { { [k \in 1..n |->
               [id |-> k, domain |-> ds[k], x |-> ps[k][1], y |-> ps[k][2],
                fx |-> IF k = dragged THEN <<ps[k][1]>> ELSE NotFixed,
                fy |-> IF k = dragged THEN <<ps[k][2]>> ELSE NotFixed,
                vx |-> v[1], vy |-> v[2]]]
            : ds \in [1..n -> SimDomains], ps \in [1..n -> Positions],
              dragged \in 0..n, v \in Velocities }
          : n \in 0..MaxSimNodes }

\* The groups of the nodes: the nodes without url ('unknown') are in none.
RECURSIVE GroupsOfNodes(_, _, _)
GroupsOfNodes(ns, k, groups) ==
  IF k > Len(ns) THEN groups
  ELSE GroupsOfNodes(ns, k + 1,
         IF ns[k].domain = <<"unknown">> THEN groups
         ELSE AddToGroup(groups, ns[k].domain, ns[k].id))

\* this.nodes.filter(n => n.domain === domain)
DomainNodes(ns, d) == SelectSeq(ns, LAMBDA n : n.domain = d)

RECURSIVE SumOfX(_)
SumOfX(ns) == IF ns = <<>> THEN 0 ELSE Head(ns).x + SumOfX(Tail(ns))
RECURSIVE SumOfY(_)
SumOfY(ns) == IF ns = <<>> THEN 0 ELSE Head(ns).y + SumOfY(Tail(ns))

\* clusterCenters: for every group with nodes, the centroid d3.mean gives,
\* as the sums and the count.
RECURSIVE ClusterCenters(_, _)
ClusterCenters(groups, ns) ==
  IF groups = <<>> THEN <<>>
  ELSE LET domainNodes == DomainNodes(ns, Head(groups).domain) IN
       (IF Len(domainNodes) = 0 THEN <<>>
        ELSE <<[domain |-> Head(groups).domain, sumX |-> SumOfX(domainNodes),
                sumY |-> SumOfY(domainNodes), count |-> Len(domainNodes)]>>)
       \o ClusterCenters(Tail(groups), ns)

\* clusterCenters.get(node.domain): the position in the list, 0 if absent
RECURSIVE CenterIndex(_, _, _)
CenterIndex(centers, d, k) ==
  IF k > Len(centers) THEN 0
  ELSE IF centers[k].domain = d THEN k ELSE CenterIndex(centers, d, k + 1)

\* A version of the force that leaves pinned nodes alone.
ApplyForceUnlessPinned(node, centers, strength, a) ==
  LET k == CenterIndex(centers, node.domain, 1) IN
  IF k = 0 \/ node.fx # NotFixed THEN node
  ELSE LET c == centers[k]
           dx == c.sumX - c.count * node.x
           dy == c.sumY - c.count * node.y
       IN [node EXCEPT !.vx = @ + dx * (Unit \div c.count) * strength * a,
                       !.vy = @ + dy * (Unit \div c.count) * strength * a]

\* The body of this.nodes.forEach(node => ...): dx, dy are the distances to
\* the centroid, times count; nothing is added when the distance is 0.
ApplyForce(node, centers, strength, a) ==
  LET k == CenterIndex(centers, node.domain, 1) IN
  IF k = 0 THEN node
  ELSE LET c == centers[k]
           dx == c.sumX - c.count * node.x
           dy == c.sumY - c.count * node.y
       IN IF dx = 0 /\ dy = 0 THEN node
          ELSE [node EXCEPT !.vx = @ + dx * (Unit \div c.count) * strength * a,
                            !.vy = @ + dy * (Unit \div c.count) * strength * a]

\* The function clusterForce() returns, applied with the cooling factor a.
clusterForce(groups, ns, strength, a) ==
  LET centers == ClusterCenters(groups, ns) IN
  [k \in DOMAIN ns |-> ApplyForce(ns[k], centers, strength, a)]

ForceOnly == CtlIdle /\ DomIdle /\ ColIdle /\ HullIdle

InitForce ==
  /\ fn = "clusterForce"
  /\ pc = "called"
  /\ simulationNodes \in SimNodeArrays
  /\ domainGroups = GroupsOfNodes(simulationNodes, 1, <<>>)
  /\ clusterStrength \in {1, 5}
  /\ alpha = <<>>
  /\ enhancedNodes = <<>> /\ simulationLinks = <<>>
  /\ tabTree = <<>> /\ groupOptions = <<>>
  /\ connOptions = <<>> /\ connectionMap = <<>> /\ connections = <<>>
  /\ ForceOnly

\* The simulation calls the force once with its current alpha.
ClusterForceTick ==
  /\ fn = "clusterForce"
  /\ pc = "called"
  /\ \E a \in {3, 10} :
       /\ alpha' = a
       /\ simulationNodes' = clusterForce(domainGroups, simulationNodes, clusterStrength, a)
  /\ pc' = "returned"
  /\ UNCHANGED <<fn, graphvars, enhancedNodes, simulationLinks, clusterStrength,
                 ctlvars, domvars, colvars, hullvars>>

NextForce == ClusterForceTick

SpecForce == InitForce /\ [][NextForce]_vars

\* Vocabulary: the nodes of domain d, and count times the x and y distance
\* of node k to the mean position of the nodes of its domain.
NodesOfDomain(d) == {k \in DOMAIN simulationNodes : simulationNodes[k].domain = d}
RECURSIVE SumXOver(_)
SumXOver(S) ==
  IF S = {} THEN 0
  ELSE LET k == CHOOSE k \in S : TRUE IN simulationNodes[k].x + SumXOver(S \ {k})
RECURSIVE SumYOver(_)
SumYOver(S) ==
  IF S = {} THEN 0
  ELSE LET k == CHOOSE k \in S : TRUE IN simulationNodes[k].y + SumYOver(S \ {k})
HasCentroid(d) ==
  /\ \E g \in DOMAIN domainGroups : domainGroups[g].domain = d
  /\ NodesOfDomain(d) # {}
ToCentroidX(k) ==
  LET S == NodesOfDomain(simulationNodes[k].domain)
  IN SumXOver(S) - Cardinality(S) * simulationNodes[k].x
ToCentroidY(k) ==
  LET S == NodesOfDomain(simulationNodes[k].domain)
  IN SumYOver(S) - Cardinality(S) * simulationNodes[k].y

\* C25: one tick with cooling factor alpha adds (centroid - position) *
\* clusterStrength * alpha to the velocity of every node whose domain has a
\* centroid, the centroid being the mean of the positions all nodes of the
\* domain, pinned ones included, have when the tick starts; the velocity of
\* the other nodes, every position and every pinned value are unchanged.
C25_ClusterForceTick ==
  [][(fn = "clusterForce" /\ pc' = "returned") =>
       /\ DOMAIN simulationNodes' = DOMAIN simulationNodes
       /\ \A k \in DOMAIN simulationNodes :
            LET before == simulationNodes[k]
                after == simulationNodes'[k]
                n == Cardinality(NodesOfDomain(before.domain))
            IN /\ after.x = before.x /\ after.y = before.y
               /\ after.fx = before.fx /\ after.fy = before.fy
               /\ after.id = before.id /\ after.domain = before.domain
               /\ IF HasCentroid(before.domain)
                  THEN /\ n * (after.vx - before.vx) =
                            ToCentroidX(k) * Unit * clusterStrength * alpha'
                       /\ n * (after.vy - before.vy) =
                            ToCentroidY(k) * Unit * clusterStrength * alpha'
                  ELSE after.vx = before.vx /\ after.vy = before.vy]_vars

\* C25 witness: after a tick on three nodes of one domain, the pinned one
\* away from the centroid, the pinned node's velocity is no longer the one
\* it had, and it had one.
C25_Witness ==
  /\ fn = "clusterForce" /\ pc = "returned"
  /\ Len(simulationNodes) = 3
  /\ \A k \in DOMAIN simulationNodes : simulationNodes[k].domain = <<"a", "com">>
  /\ \E k \in DOMAIN simulationNodes :
       /\ simulationNodes[k].fx # NotFixed
       /\ ToCentroidX(k) # 0
       /\ simulationNodes[k].vx \notin {0, 5 * Unit}


----------------------------------------------------------------------------
\* Claims about the controller's presentations over its whole life.

\* What getCurrentVisualizer() returns has been torn down.
HandsOutTornDown ==
  /\ currentVisualizer # NoVis
  /\ pres[currentVisualizer].torn

\* C29: (while every requested mode was recognised and no teardown threw)
\* at every point where a caller can run, getCurrentVisualizer() returns
\* null or a presentation that has not been destroyed.
C29_NeverHandsOutTornDown ==
  (~irregular /\ ~destroyed) => ~HandsOutTornDown

\* C27: once destroy() has returned, the container is empty, every
\* presentation the controller ever made is torn down and none has a
\* running simulation.
C27_NothingAfterDestroy ==
  (destroyed /\ ~irregular) =>
     /\ attached = {}
     /\ \A i \in DOMAIN pres : pres[i].torn /\ pres[i].sim # "running"


----------------------------------------------------------------------------
\* TabTreeViewer and ClusterControls on one controller.

\* TabTreeViewer.switchViewMode(mode): the controller's state and the
\* viewer's currentViewMode after the call.
switchViewMode(s, mirror, mode) ==
  IF mode \in Modes
  THEN [st |-> switchMode(s, mode, TRUE, "none"), mirror |-> mode]
  ELSE [st |-> s, mirror |-> mirror]

\* The mode TabTreeViewer.toggleViewMode() asks for.
toggleTarget(mirror) == IF mirror = "tree" THEN "cluster" ELSE "tree"

\* The state after TabTreeViewer.init: the controller was constructed with
\* defaultMode 'tree' and the viewer's listener, which ran once during the
\* construction; the ClusterControls constructed after it have assigned
\* their own listener to viewModeController.onModeChange.
InitViewer ==
  /\ LET s == switchMode(Blank, "tree", FALSE, "none") IN
       /\ currentMode = s.currentMode
       /\ currentVisualizer = s.currentVisualizer
       /\ treeVisualizer = s.treeVisualizer
       /\ clusterVisualizer = s.clusterVisualizer
       /\ data = s.data
       /\ savedState = s.savedState
       /\ pres = s.pres
       /\ attached = s.attached
       /\ chains = s.chains
       /\ timers = s.timers
       /\ did = s.did
       /\ lastOp = [op |-> "init", from |-> NoMode, mode |-> "tree",
                    animate |-> FALSE, threw |-> FALSE, faulted |-> FALSE,
                    prevMode |-> NoMode, prevVis |-> NoVis, prevLive |-> FALSE]
       /\ currentViewMode = LastModeChange(s.did)
  /\ nOps = 0
  /\ irregular = FALSE
  /\ destroyed = FALSE
  /\ onModeChange = "controls"
  /\ LibIdle

\* A call of TabTreeViewer.switchViewMode(mode).
SwitchViewMode(mode) ==
  /\ nOps < MaxOps
  /\ (mode \in Modes /\ mode # currentMode) => Cardinality(Pending) < MaxPending
  /\ LET r == switchViewMode(St, currentViewMode, mode) IN
       /\ Commit(r.st)
       /\ lastOp' = Op("switchViewMode", currentMode, mode, TRUE, r.st)
       /\ currentViewMode' = r.mirror
  /\ nOps' = nOps + 1
  /\ UNCHANGED <<irregular, destroyed, onModeChange, libvars>>

\* A call of TabTreeViewer.toggleViewMode().
ToggleViewMode ==
  /\ nOps < MaxOps
  /\ toggleTarget(currentViewMode) # currentMode => Cardinality(Pending) < MaxPending
  /\ LET r == switchViewMode(St, currentViewMode, toggleTarget(currentViewMode)) IN
       /\ Commit(r.st)
       /\ lastOp' = Op("toggleViewMode", currentMode,
                       toggleTarget(currentViewMode), TRUE, r.st)
       /\ currentViewMode' = r.mirror
  /\ nOps' = nOps + 1
  /\ UNCHANGED <<irregular, destroyed, onModeChange, libvars>>

\* A mode switch from the control panel: ClusterControls.switchMode(mode).
ControlsSwitchMode(mode) ==
  /\ nOps < MaxOps
  /\ mode # currentMode => Cardinality(Pending) < MaxPending
  /\ LET s == switchMode(St, mode, TRUE, "none") IN
       /\ Commit(s)
       /\ lastOp' = Op("controlsSwitchMode", currentMode, mode, TRUE, s)
  /\ nOps' = nOps + 1
  /\ Notified(did')
  /\ UNCHANGED <<irregular, libvars>>

NextViewer ==
  \/ \E mode \in Requests : SwitchViewMode(mode)
  \/ ToggleViewMode
  \/ \E mode \in Modes : ControlsSwitchMode(mode)
  \/ \E c \in 1..MaxOps : FadeOutEnd(c)
  \/ \E c \in 1..MaxOps : DelayEnd(c)
  \/ \E c \in 1..MaxOps : FadeInEnd(c)
  \/ RestoreTimer

SpecViewer == InitViewer /\ [][NextViewer]_vars

\* C28: whenever no transition is in flight, what getCurrentViewMode()
\* returns is what the controller's getCurrentMode() returns, after every
\* sequence of switchViewMode, toggleViewMode and control-panel switches.
C28_MirrorInStep ==
  (Pending = {} /\ ~irregular) => currentViewMode = currentMode

====
